---- MODULE Spec2Model ----
(***************************************************************************)
(* Parallel multi-scalar multiplication (Pippenger bucket method) of       *)
(* src/src/multiexp.rs: the window scheduler (multiexp, ChunksJoiner,      *)
(* join_chunks), the window kernels and the per-chunk dense reducers.      *)
(*                                                                         *)
(* Group elements.  The kernels use the curve only through zero,           *)
(* add_assign, add_assign_mixed and double, and never compare points.  A   *)
(* point is therefore modelled in the free abelian group generated by the  *)
(* bases of the call: a point is the vector of the integer coefficients    *)
(* of bases[1], ..., bases[nb].  An equation between two such vectors      *)
(* holds in every abelian group and for every choice of the bases.         *)
(***************************************************************************)
EXTENDS Integers, Sequences, FiniteSets, TLC

VARIABLES
    bases,          \* the bases of the call: bases[i] is the i-th generator
    exponents,      \* the scalars (Repr values), a sequence of naturals
    density_map,    \* [full |-> BOOLEAN, bits |-> sequence of BOOLEAN]
    cpus,           \* pool.cpus
    num_cores,      \* physical cores the topology reports
    call,           \* the entry point the caller is inside, or "none"
    c,              \* entry point -> the window width it chose
    results,        \* entry point -> what it returned
    futures,        \* multiexp: one window task per entry, in dispatch order
    poll,           \* outcome of the last ChunksJoiner::poll
    skip,           \* dense_multiexp_inner: skip of the current window
    workers,        \* dense_multiexp_inner: the chunk workers of the window
    this_region,    \* the window accumulator behind the mutex
    region_lock,    \* holder of the accumulator mutex, 0 when free
    topo_lock,      \* holder of the topology mutex, 0 when free
    frames,         \* `this` of every enclosing dense_multiexp_inner call
    next_region,    \* value returned by the innermost finished call
    cworkers,       \* dense_multiexp_inner_consume: the chunk workers
    rx              \* the channel the chunk workers send their sums on

inputVars == <<bases, exponents, density_map, cpus, num_cores>>
sparseVars == <<futures, poll>>
denseVars == <<skip, workers, this_region, region_lock, topo_lock, frames,
               next_region>>
consumeVars == <<cworkers, rx>>
vars == <<inputVars, call, c, results, sparseVars, denseVars, consumeVars>>

----------------------------------------------------------------------------
(* Bounds of the model *)

\* Scalar bit width (Fr::NUM_BITS of the curve, 254/255 in the crate).
NUM_BITS == 4

\* Longest input whose scalars are enumerated exhaustively.
MaxLen == 2

\* Largest pool.cpus.
MaxCpus == 2

\* Largest pool.cpus of the calls that only dispatch window tasks.
MaxPoolCpus == 3

----------------------------------------------------------------------------
(* Arithmetic helpers *)

RECURSIVE Pow2(_)
Pow2(n) == IF n = 0 THEN 1 ELSE 2 * Pow2(n - 1)

Min(a, b) == IF a < b THEN a ELSE b

\* (f64::from(x as u32)).ln().ceil() as u32: the least k with e^k >= x
\* (floor(e^k) = 1, 2, 7, 20, 54, 148, 403, 1096, 2980 for k = 0..8).
CeilLn(x) ==
    IF x <= 1 THEN 0
    ELSE IF x <= 2 THEN 1
    ELSE IF x <= 7 THEN 2
    ELSE IF x <= 20 THEN 3
    ELSE IF x <= 54 THEN 4
    ELSE IF x <= 148 THEN 5
    ELSE IF x <= 403 THEN 6
    ELSE IF x <= 1096 THEN 7
    ELSE IF x <= 2980 THEN 8
    ELSE 9

----------------------------------------------------------------------------
(* The curve contract: Projective::zero, add_assign, add_assign_mixed,     *)
(* double, and CurveAffine::mul used by the naive reference.               *)

\* Points are integer vectors over the generators the bases are written
\* in.
Dim == IF bases = <<>> THEN {} ELSE DOMAIN bases[1]

PZero == [i \in Dim |-> 0]

PAdd(p, q) == [i \in Dim |-> p[i] + q[i]]

PDouble(p) == [i \in Dim |-> 2 * p[i]]

PMul(p, k) == [i \in Dim |-> k * p[i]]

RECURSIVE PDoubleTimes(_, _)
PDoubleTimes(p, n) == IF n = 0 THEN p ELSE PDoubleTimes(PDouble(p), n - 1)

\* The i-th of nb generators.
Generator(i, nb) == [j \in 1..nb |-> IF j = i THEN 1 ELSE 0]

Generators(nb) == [i \in 1..nb |-> Generator(i, nb)]

----------------------------------------------------------------------------
(* Results *)

Ok(p) == [tag |-> "Ok", value |-> p]

Err(e) == [tag |-> e, value |-> PZero]

NoResult == [tag |-> "None", value |-> PZero]

----------------------------------------------------------------------------
(* Program constants *)

\* `if exponents.len() < 32`: inputs shorter than this use the fixed width.
SmallInput == 32

\* `3u32`: the window width of short inputs.
SmallWidth == 3

----------------------------------------------------------------------------
(* Density map and base source (the collaborators of the sparse kernel) *)

FullDensity == [full |-> TRUE, bits |-> <<>>]

DensityTracker(bits) == [full |-> FALSE, bits |-> bits]

\* QueryDensity::get_query_size: None (-1 here) for FullDensity.
get_query_size(d) == IF d.full THEN -1 ELSE Len(d.bits)

\* Number of pairs the zip of exponents with the density iterator yields.
ZipLen(exps, d) == IF d.full THEN Len(exps) ELSE Min(Len(exps), Len(d.bits))

DensityAt(d, k) == IF d.full THEN TRUE ELSE d.bits[k]

\* Source::skip(amt) at cursor pos: TRUE when the source has run out.
SourceExhausted(pos, amt) == pos + amt > Len(bases)

----------------------------------------------------------------------------
(* The window kernel of the sparse path *)

\* Mutant of Digit: the shift by skip is lost, every window reads the
\* lowest digit.
DigitLowest(exp, sk, width) == exp % Pow2(width)

\* Mutant of Digit: the modulus is one bit too wide.
DigitWide(exp, sk, width) == (exp \div Pow2(sk)) % Pow2(width + 1)

\* exp.shr(skip); exp.as_ref()[0] % (1 << c).  Every scalar of the model
\* fits the lowest u64 limb, so as_ref()[0] is the whole shifted value.
Digit(exp, sk, width) == (exp \div Pow2(sk)) % Pow2(width)

\* vec![zero; (1 << c) - 1]
NewBuckets(width) == [d \in 1..(Pow2(width) - 1) |-> PZero]

\* Mutant of Target: a zero scalar is taken for the trivial scalar one.
TargetZeroTrivial(exp, sk, width, handle_trivial) ==
    IF exp = 0 \/ exp = 1
    THEN IF handle_trivial THEN [kind |-> "acc", d |-> 0]
                           ELSE [kind |-> "skip", d |-> 0]
    ELSE LET d == Digit(exp, sk, width)
         IN  IF d # 0 THEN [kind |-> "bucket", d |-> d]
                      ELSE [kind |-> "skip", d |-> 0]

\* Mutant of Target: handle_trivial is ignored, a scalar one is added to
\* the accumulator of every window.
TargetTrivialEveryWindow(exp, sk, width, handle_trivial) ==
    IF exp = 0 THEN [kind |-> "skip", d |-> 0]
    ELSE IF exp = 1 THEN [kind |-> "acc", d |-> 0]
    ELSE LET d == Digit(exp, sk, width)
         IN  IF d # 0 THEN [kind |-> "bucket", d |-> d]
                      ELSE [kind |-> "skip", d |-> 0]

\* Where the kernel sends the base paired with exp: "skip" (the base is
\* passed over), "acc" (added to the accumulator) or the bucket index + 1.
Target(exp, sk, width, handle_trivial) ==
    IF exp = 0 THEN [kind |-> "skip", d |-> 0]
    ELSE IF exp = 1
         THEN IF handle_trivial THEN [kind |-> "acc", d |-> 0]
                                ELSE [kind |-> "skip", d |-> 0]
         ELSE LET d == Digit(exp, sk, width)
              IN  IF d # 0 THEN [kind |-> "bucket", d |-> d]
                           ELSE [kind |-> "skip", d |-> 0]

\* `&buckets[idx]` with idx counted from 0: inside the vector or a panic.
InBuckets(buckets, idx) == idx + 1 \in DOMAIN buckets

\* The zip with `exponents.iter().skip(1).chain(padding.iter())`: the scalar
\* after pair k, the padding zero after the last.
NextExp(k) == IF k < Len(exponents) THEN exponents[k + 1] ELSE 0

\* `if next_exp != zero && next_exp != one { ... &buckets[next_exp - 1] }`:
\* the bucket index the pass prefetches, -1 when it prefetches none.
PrefetchIndex(next_exp, sk, width) ==
    IF next_exp # 0 /\ next_exp # 1
    THEN LET d == Digit(next_exp, sk, width)
         IN  IF d # 0 THEN d - 1 ELSE -1
    ELSE -1

\* The task after an index outside the bucket vector: the closure panics.
TaskPanic(t, k) ==
    [t EXCEPT !.i = k, !.state = "done", !.result = Err("Panic")]

\* Mutant of TakeBase: a base that is passed over is not taken from the
\* source.
TakeBaseSkipKeepsCursor(t, k, tg) ==
    IF SourceExhausted(t.pos, 1)
    THEN [t EXCEPT !.i = k, !.state = "done",
                   !.result = Err("SourceExhausted")]
    ELSE IF tg.kind = "skip"
    THEN [t EXCEPT !.i = k]
    ELSE IF tg.kind = "acc"
    THEN [t EXCEPT !.i = k, !.pos = @ + 1,
                   !.acc = PAdd(@, bases[t.pos + 1])]
    ELSE IF ~InBuckets(t.buckets, tg.d - 1)
    THEN [TaskPanic(t, k) EXCEPT !.updated = tg.d - 1]
    ELSE [t EXCEPT !.i = k, !.pos = @ + 1, !.updated = tg.d - 1,
                   !.buckets[tg.d] = PAdd(@, bases[t.pos + 1])]

\* The body of `if density { ... }` for pair k of task t.
TakeBase(t, k, tg) ==
    IF SourceExhausted(t.pos, 1)
    THEN [t EXCEPT !.i = k, !.state = "done",
                   !.result = Err("SourceExhausted")]
    ELSE IF tg.kind = "skip"
    THEN [t EXCEPT !.i = k, !.pos = @ + 1]
    ELSE IF tg.kind = "acc"
    THEN [t EXCEPT !.i = k, !.pos = @ + 1,
                   !.acc = PAdd(@, bases[t.pos + 1])]
    ELSE IF ~InBuckets(t.buckets, tg.d - 1)
    THEN [TaskPanic(t, k) EXCEPT !.updated = tg.d - 1]
    ELSE [t EXCEPT !.i = k, !.pos = @ + 1, !.updated = tg.d - 1,
                   !.buckets[tg.d] = PAdd(@, bases[t.pos + 1])]

\* Mutant of KernelStep: a false density entry skips one base.
KernelStepFalseSkipsBase(t, width) ==
    LET k   == t.i + 1
        exp == exponents[k]
        pf  == PrefetchIndex(NextExp(k), t.skip, width)
        t1  == [t EXCEPT !.prefetched = pf, !.updated = -1]
        tg  == IF DensityAt(density_map, k)
               THEN Target(exp, t.skip, width, t.handle_trivial)
               ELSE [kind |-> "skip", d |-> 0]
    IN  IF pf # -1 /\ ~InBuckets(t.buckets, pf) THEN TaskPanic(t1, k)
        ELSE TakeBase(t1, k, tg)

\* One pass of the loop `for ((&exp, &next_exp), density) in ...` of a
\* window task t, on pair number t.i + 1: the prefetch of the next pair's
\* bucket, then the pair itself.
KernelStep(t, width) ==
    LET k   == t.i + 1
        exp == exponents[k]
        pf  == PrefetchIndex(NextExp(k), t.skip, width)
        t1  == [t EXCEPT !.prefetched = pf, !.updated = -1]
        tg  == Target(exp, t.skip, width, t.handle_trivial)
    IN  IF pf # -1 /\ ~InBuckets(t.buckets, pf) THEN TaskPanic(t1, k)
        ELSE IF ~DensityAt(density_map, k) THEN [t1 EXCEPT !.i = k]
        ELSE TakeBase(t1, k, tg)

\* Mutant of SumByParts: the buckets are swept from the lowest up.
RECURSIVE SumByPartsForward(_, _, _, _)
SumByPartsForward(acc, running_sum, buckets, d) ==
    IF d = 0 THEN acc
    ELSE LET running == PAdd(running_sum, buckets[Len(buckets) - d + 1])
         IN  SumByPartsForward(PAdd(acc, running), running, buckets, d - 1)

\* Summation by parts: `for exp in buckets.into_iter().rev()`, from bucket
\* number d down to 1, returning the accumulator.
RECURSIVE SumByParts(_, _, _, _)
SumByParts(acc, running_sum, buckets, d) ==
    IF d = 0 THEN acc
    ELSE LET running == PAdd(running_sum, buckets[d])
         IN  SumByParts(PAdd(acc, running), running, buckets, d - 1)

Sweep(acc, buckets) == SumByParts(acc, PZero, buckets, Len(buckets))

\* The end of the closure: the sweep and `Ok(acc)`.
KernelFinish(t) ==
    LET acc == Sweep(t.acc, t.buckets)
    IN  [t EXCEPT !.state = "done", !.acc = acc, !.result = Ok(acc)]

\* multiexp_inner_impl(pool, bases, density_map, exponents, skip, c, ht):
\* the task handed to pool.compute, before its first pass.
NewTask(sk, width, handle_trivial) ==
    [skip |-> sk, handle_trivial |-> handle_trivial, state |-> "running",
     i |-> 0, pos |-> 0, acc |-> PZero, buckets |-> NewBuckets(width),
     prefetched |-> -1, updated |-> -1, result |-> NoResult]

----------------------------------------------------------------------------
(* The window scheduler *)

\* The width multiexp derives from the number of scalars.
WindowWidth(n) == IF n < SmallInput THEN SmallWidth ELSE CeilLn(n)

\* Mutant of Dispatch: the loop runs while skip <= NUM_BITS.
RECURSIVE DispatchInclusive(_, _)
DispatchInclusive(sk, width) ==
    IF sk <= NUM_BITS
    THEN <<NewTask(sk, width, sk = 0)>> \o DispatchInclusive(sk + width, width)
    ELSE <<>>

\* `while skip < NUM_BITS { futures.push(...); skip += c; }`
RECURSIVE Dispatch(_, _)
Dispatch(sk, width) ==
    IF sk < NUM_BITS
    THEN <<NewTask(sk, width, sk = 0)>> \o Dispatch(sk + width, width)
    ELSE <<>>

\* The loop of join_chunks over chunks[j], j = m-1 down to 1, with the
\* running value `higher`.
RECURSIVE JoinLower(_, _, _, _)
JoinLower(chunks, j, higher, width) ==
    IF j = 0 THEN Ok(higher)
    ELSE IF chunks[j].tag # "Ok" THEN chunks[j]
    ELSE JoinLower(chunks, j - 1,
                   PAdd(PDoubleTimes(higher, width), chunks[j].value), width)

\* Mutant of join_chunks: one doubling per window instead of c.
join_chunks_single_double(chunks, width) ==
    IF Len(chunks) = 0 THEN Ok(PZero)
    ELSE IF chunks[Len(chunks)].tag # "Ok" THEN chunks[Len(chunks)]
    ELSE JoinLower(chunks, Len(chunks) - 1, chunks[Len(chunks)].value, 1)

\* Mutant of join_chunks: a failed window counts as the identity.
join_chunks_drop_failed(chunks, width) ==
    LET kept == [w \in DOMAIN chunks |->
                    IF chunks[w].tag = "Ok" THEN chunks[w] ELSE Ok(PZero)]
    IN  IF Len(kept) = 0 THEN Ok(PZero)
        ELSE JoinLower(kept, Len(kept) - 1, kept[Len(kept)].value, width)

\* Mutant of join_chunks: the windows are taken from the lowest up.
join_chunks_ascending(chunks, width) ==
    LET rev == [w \in DOMAIN chunks |-> chunks[Len(chunks) + 1 - w]]
    IN  IF Len(rev) = 0 THEN Ok(PZero)
        ELSE IF rev[Len(rev)].tag # "Ok" THEN rev[Len(rev)]
        ELSE JoinLower(rev, Len(rev) - 1, rev[Len(rev)].value, width)

\* Mutant of join_chunks: the windows are searched for an error from the
\* lowest up before they are joined.
join_chunks_lowest_error(chunks, width) ==
    LET failed == {w \in DOMAIN chunks : chunks[w].tag # "Ok"}
    IN  IF failed # {}
        THEN chunks[CHOOSE w \in failed : \A v \in failed : w <= v]
        ELSE IF Len(chunks) = 0 THEN Ok(PZero)
        ELSE JoinLower(chunks, Len(chunks) - 1, chunks[Len(chunks)].value,
                       width)

\* join_chunks: from the highest window down, c doublings of the running
\* value before each lower window is added; the first error met is returned.
join_chunks(chunks, width) ==
    IF Len(chunks) = 0 THEN Ok(PZero)
    ELSE IF chunks[Len(chunks)].tag # "Ok" THEN chunks[Len(chunks)]
    ELSE JoinLower(chunks, Len(chunks) - 1, chunks[Len(chunks)].value, width)

----------------------------------------------------------------------------
(* Inputs *)

\* Scalars of every shape a window of width SmallWidth distinguishes: zero,
\* one, an empty low digit under a high one, low digit 1 in a scalar other
\* than one, and the largest scalar (every digit full).
ScalarSamples ==
    {0, 1, Pow2(SmallWidth), Pow2(SmallWidth) + 1, Pow2(NUM_BITS) - 1}

ShortInputs == UNION {[1..n -> ScalarSamples] : n \in 0..MaxLen}

\* Inputs at the length where the width starts to follow the input size.
LongInputs ==
    {[i \in 1..SmallInput |-> (i * m) % Pow2(NUM_BITS)] : m \in {1, 3}}

\* Machines: pool.cpus logical CPUs on as many physical cores, or on half
\* as many (two hardware threads per core).
Machines ==
    {m \in (1..MaxCpus) \X (1..MaxCpus) : m[2] = m[1] \/ 2 * m[2] = m[1]}

EntryPoints == {"multiexp", "dense_multiexp", "dense_multiexp_consume"}

\* The entry points that return a ChunksJoiner over window tasks.
SparseEntryPoints == {"multiexp", "future_based_multiexp"}

\* The entry points that run one window after another over chunk workers
\* merging into a mutex-protected accumulator.
DenseEntryPoints ==
    {"dense_multiexp", "dense_unrolled_multiexp_with_prefetch",
     "dense_multiexp_with_manual_unrolling"}

AllEntryPoints == EntryPoints \cup SparseEntryPoints \cup DenseEntryPoints

----------------------------------------------------------------------------
(* multiexp and its ChunksJoiner *)

\* Mutant of AllDone: the join resolves as soon as one task has failed.
AllDoneOrFailed(fs) ==
    \/ \A w \in DOMAIN fs : fs[w].state = "done"
    \/ \E w \in DOMAIN fs : fs[w].result.tag \notin {"Ok", "None"}

\* JoinAll::poll is Ready once every future of the vector has completed.
AllDone(fs) == \A w \in DOMAIN fs : fs[w].state = "done"

WindowResults(fs) == [w \in DOMAIN fs |-> fs[w].result]

\* Mutant of StartWindows: the query-size assertion is missing.
StartWindowsNoAssert(width) ==
    /\ call = "none"
    /\ results["multiexp"].tag = "None"
    /\ c' = [c EXCEPT !["multiexp"] = width]
    /\ futures' = Dispatch(0, width)
    /\ call' = "multiexp"
    /\ poll' = "None"
    /\ UNCHANGED results
    /\ UNCHANGED <<inputVars, denseVars, consumeVars>>

\* multiexp with window width `width`: the query-size assertion, then one
\* window task per skip, joined by a ChunksJoiner.
StartWindows(width) ==
    /\ call = "none"
    /\ results["multiexp"].tag = "None"
    /\ c' = [c EXCEPT !["multiexp"] = width]
    /\ IF get_query_size(density_map) \notin {-1, Len(exponents)}
       THEN /\ results' = [results EXCEPT !["multiexp"] = Err("Panic")]
            /\ UNCHANGED <<call, futures, poll>>
       ELSE /\ futures' = Dispatch(0, width)
            /\ call' = "multiexp"
            /\ poll' = "None"
            /\ UNCHANGED results
    /\ UNCHANGED <<inputVars, denseVars, consumeVars>>

Multiexp == StartWindows(WindowWidth(Len(exponents)))

\* A pool thread runs one pass of the loop of window task w.
TaskStep(w) ==
    /\ call = "multiexp"
    /\ futures[w].state = "running"
    /\ futures[w].i < ZipLen(exponents, density_map)
    /\ futures' = [futures EXCEPT ![w] = KernelStep(@, c["multiexp"])]
    /\ UNCHANGED <<inputVars, call, c, results, poll, denseVars, consumeVars>>

\* A pool thread runs the sweep of window task w and completes its future.
TaskFinish(w) ==
    /\ call = "multiexp"
    /\ futures[w].state = "running"
    /\ futures[w].i = ZipLen(exponents, density_map)
    /\ futures' = [futures EXCEPT ![w] = KernelFinish(@)]
    /\ UNCHANGED <<inputVars, call, c, results, poll, denseVars, consumeVars>>

\* ChunksJoiner::poll, driven by block_on / wait, on the joiner multiexp or
\* future_based_multiexp returned.
Poll ==
    /\ call \in SparseEntryPoints
    /\ IF AllDone(futures)
       THEN /\ poll' = "Ready"
            /\ results' = [results EXCEPT
                   ![call] = join_chunks(WindowResults(futures), c[call])]
            /\ call' = "none"
       ELSE /\ poll' = "Pending"
            /\ UNCHANGED <<results, call>>
    /\ UNCHANGED <<inputVars, c, futures, denseVars, consumeVars>>

----------------------------------------------------------------------------
(* future_based_multiexp *)

\* The width future_based_multiexp chooses: ceil(ln n), replaced by
\* ceil(NUM_BITS / cpus) when it gives fewer windows than the pool has CPUs.
FutureWidth(n, p) ==
    IF n < SmallInput THEN SmallWidth
    ELSE LET width == CeilLn(n)
             num_chunks == (NUM_BITS \div width)
                           + (IF NUM_BITS % width # 0 THEN 1 ELSE 0)
         IN  IF num_chunks < p
             THEN (NUM_BITS \div p) + (IF NUM_BITS % p # 0 THEN 1 ELSE 0)
             ELSE width

\* One pass of the loop `for ((&exp, base), &next_exp) in ...` of a window
\* task of future_based_dense_multiexp_imlp, on pair number t.i + 1.
FutureKernelStep(t, width) ==
    LET k   == t.i + 1
        exp == exponents[k]
        pf  == PrefetchIndex(NextExp(k), t.skip, width)
        t1  == [t EXCEPT !.prefetched = pf, !.updated = -1]
        tg  == Target(exp, t.skip, width, t.handle_trivial)
    IN  IF pf # -1 /\ ~InBuckets(t.buckets, pf) THEN TaskPanic(t1, k)
        ELSE IF tg.kind = "skip" THEN [t1 EXCEPT !.i = k]
        ELSE IF tg.kind = "acc"
        THEN [t1 EXCEPT !.i = k, !.acc = PAdd(@, bases[k])]
        ELSE IF ~InBuckets(t.buckets, tg.d - 1)
        THEN [TaskPanic(t1, k) EXCEPT !.updated = tg.d - 1]
        ELSE [t1 EXCEPT !.i = k, !.updated = tg.d - 1,
                        !.buckets[tg.d] = PAdd(@, bases[k])]

\* future_based_multiexp: the length assertion, the width, one window task
\* per skip, joined by a ChunksJoiner.
FutureBasedMultiexp ==
    /\ call = "none"
    /\ results["future_based_multiexp"].tag = "None"
    /\ IF ~(Len(exponents) <= Len(bases))
       THEN /\ results' = [results EXCEPT
                   !["future_based_multiexp"] = Err("Panic")]
            /\ UNCHANGED <<call, c, futures, poll>>
       ELSE /\ c' = [c EXCEPT !["future_based_multiexp"] =
                         FutureWidth(Len(exponents), cpus)]
            /\ futures' = Dispatch(0, FutureWidth(Len(exponents), cpus))
            /\ call' = "future_based_multiexp"
            /\ poll' = "None"
            /\ UNCHANGED results
    /\ UNCHANGED <<inputVars, denseVars, consumeVars>>

\* A pool thread runs one pass of the loop of window task w.
FutureTaskStep(w) ==
    /\ call = "future_based_multiexp"
    /\ futures[w].state = "running"
    /\ futures[w].i < Min(Len(exponents), Len(bases))
    /\ futures' = [futures EXCEPT
           ![w] = FutureKernelStep(@, c["future_based_multiexp"])]
    /\ UNCHANGED <<inputVars, call, c, results, poll, denseVars, consumeVars>>

\* A pool thread runs the sweep of window task w and completes its future.
FutureTaskFinish(w) ==
    /\ call = "future_based_multiexp"
    /\ futures[w].state = "running"
    /\ futures[w].i = Min(Len(exponents), Len(bases))
    /\ futures' = [futures EXCEPT ![w] = KernelFinish(@)]
    /\ UNCHANGED <<inputVars, call, c, results, poll, denseVars, consumeVars>>

----------------------------------------------------------------------------
(* The worker pool *)

\* Worker::get_chunk_size(n), also the chunk size pool.scope hands to its
\* closure: the input is split into pool.cpus chunks of ceil(n / cpus).
get_chunk_size(n, p) == IF n <= p THEN 1 ELSE (n + p - 1) \div p

\* bases.chunks(chunk).zip(exponents.chunks(chunk)): the index ranges.
NumChunks(n, chunk) == (n + chunk - 1) \div chunk

ChunkLo(j, chunk) == (j - 1) * chunk + 1

ChunkHi(j, chunk, n) == Min(j * chunk, n)

----------------------------------------------------------------------------
(* dense_multiexp *)

\* The loop `for (base, &exp) in base.iter().zip(exp.iter())` of a chunk
\* worker over the pairs lo..hi, from the state st = [acc, buckets].
RECURSIVE DenseLoop(_, _, _, _, _, _)
DenseLoop(st, lo, hi, sk, width, handle_trivial) ==
    IF lo > hi THEN st
    ELSE LET tg == Target(exponents[lo], sk, width, handle_trivial)
             nx == IF tg.kind = "acc"
                   THEN [st EXCEPT !.acc = PAdd(@, bases[lo])]
                   ELSE IF tg.kind = "bucket"
                   THEN [st EXCEPT !.buckets[tg.d] = PAdd(@, bases[lo])]
                   ELSE st
         IN  DenseLoop(nx, lo + 1, hi, sk, width, handle_trivial)

\* Mutant of DenseChunk: handle_trivial is taken as true in every window.
DenseChunkTrivialEveryWindow(lo, hi, sk, width, handle_trivial) ==
    LET st == DenseLoop([acc |-> PZero, buckets |-> NewBuckets(width)],
                        lo, hi, sk, width, TRUE)
    IN  Sweep(st.acc, st.buckets)

\* The partial sum of one chunk: the loop, then the sweep.
DenseChunk(lo, hi, sk, width, handle_trivial) ==
    LET st == DenseLoop([acc |-> PZero, buckets |-> NewBuckets(width)],
                        lo, hi, sk, width, handle_trivial)
    IN  Sweep(st.acc, st.buckets)

\* Mutant of MergeRegion: the partial sum is added twice.
MergeRegionTwice(region, acc) == PAdd(PAdd(region, acc), acc)

\* Mutant of MergeRegion: the partial sum overwrites the accumulator.
MergeRegionOverwrite(region, acc) == acc

\* `(*guard).add_assign(&acc)`
MergeRegion(region, acc) == PAdd(region, acc)

\* `const UNROLL_BY: usize = 8` of dense_multiexp_inner_unrolled_with_prefetch.
UNROLL_BY == 8

\* `this_exp.shr(skip); this_exp.as_ref()[0] & mask` with
\* mask = (1 << c) - 1: the low c bits of the shifted scalar.
UnrolledDigit(exp, sk, width) == (exp \div Pow2(sk)) % Pow2(width)

\* Where the unrolled kernel sends the base paired with this_exp.
UnrolledTarget(exp, sk, width, handle_trivial) ==
    IF exp = 0 THEN [kind |-> "skip", d |-> 0]
    ELSE IF exp = 1
         THEN IF handle_trivial THEN [kind |-> "acc", d |-> 0]
                                ELSE [kind |-> "skip", d |-> 0]
         ELSE LET d == UnrolledDigit(exp, sk, width)
              IN  IF d # 0 THEN [kind |-> "bucket", d |-> d]
                           ELSE [kind |-> "skip", d |-> 0]

\* `next_exp.shr(skip); let next_exp = next_exp.as_ref()[0] & mask;
\*  if next_exp != 0 { prefetch(&buckets[next_exp - 1]) }`: the index the
\* pass prefetches, -1 when none.  Scalars zero and one are not set apart.
UnrolledPrefetch(next_exp, sk, width) ==
    LET d == UnrolledDigit(next_exp, sk, width)
    IN  IF d # 0 THEN d - 1 ELSE -1

\* The unrolled blocks and the remainder loop of a chunk worker over the
\* pairs k..hi of the chunk lo..hi.  Pairs 0..6 of each block of UNROLL_BY
\* prefetch the bucket of the pair after them; pair 7 of a block and the
\* pairs of the remainder do not.
RECURSIVE UnrolledLoop(_, _, _, _, _, _, _)
UnrolledLoop(st, k, lo, hi, sk, width, handle_trivial) ==
    IF k > hi \/ st.panic THEN st
    ELSE LET offset   == k - lo
             unrolled == ((hi - lo + 1) \div UNROLL_BY) * UNROLL_BY
             tg  == UnrolledTarget(exponents[k], sk, width, handle_trivial)
             upd == IF tg.kind = "bucket" THEN tg.d - 1 ELSE -1
             pf  == IF offset < unrolled
                       /\ offset % UNROLL_BY < UNROLL_BY - 1
                    THEN UnrolledPrefetch(exponents[k + 1], sk, width)
                    ELSE -1
             nx  == IF upd # -1 /\ ~InBuckets(st.buckets, upd)
                    THEN [st EXCEPT !.panic = TRUE, !.used = @ \cup {upd}]
                    ELSE IF pf # -1 /\ ~InBuckets(st.buckets, pf)
                    THEN [st EXCEPT !.panic = TRUE,
                                    !.used = @ \cup ({upd, pf} \ {-1})]
                    ELSE IF tg.kind = "acc"
                    THEN [st EXCEPT !.acc = PAdd(@, bases[k]),
                                    !.used = @ \cup ({pf} \ {-1})]
                    ELSE IF tg.kind = "bucket"
                    THEN [st EXCEPT !.buckets[tg.d] = PAdd(@, bases[k]),
                                    !.used = @ \cup ({upd, pf} \ {-1})]
                    ELSE [st EXCEPT !.used = @ \cup ({pf} \ {-1})]
         IN  UnrolledLoop(nx, k + 1, lo, hi, sk, width, handle_trivial)

\* Mutant of UnrolledChunk: the remainder loop is missing.
UnrolledChunkBlocksOnly(lo, hi, sk, width, handle_trivial) ==
    LET st == UnrolledLoop([panic |-> FALSE, used |-> {}, acc |-> PZero,
                            buckets |-> NewBuckets(width)],
                           lo, lo,
                           lo + ((hi - lo + 1) \div UNROLL_BY) * UNROLL_BY - 1,
                           sk, width, handle_trivial)
    IN  [panic |-> st.panic, used |-> st.used,
         acc |-> Sweep(st.acc, st.buckets)]

\* The partial sum of one chunk of the unrolled kernel: the loops, then the
\* sweep.
UnrolledChunk(lo, hi, sk, width, handle_trivial) ==
    LET st == UnrolledLoop([panic |-> FALSE, used |-> {}, acc |-> PZero,
                            buckets |-> NewBuckets(width)],
                           lo, lo, hi, sk, width, handle_trivial)
    IN  [panic |-> st.panic, used |-> st.used,
         acc |-> Sweep(st.acc, st.buckets)]

\* `const UNROLL_BY: usize = 1024` of
\* dense_multiexp_with_manual_unrolling_impl.
ManualUnrollBy == 1024

\* vec![zero; 1 << c], indexed from 0 ("buckets for ALL exponents").
ManualBuckets(width) == [d \in 0..(Pow2(width) - 1) |-> PZero]

\* this_exponent_index after reading this_exp: 1 for a scalar one when
\* handle_trivial, the index of the pair before for a scalar one otherwise,
\* else the low c bits of the shifted scalar.
ManualIndex(previous_index, exp, sk, width, handle_trivial) ==
    IF exp = 1
    THEN IF handle_trivial THEN 1 ELSE previous_index
    ELSE (exp \div Pow2(sk)) % Pow2(width)

\* The vector p with its coordinates computed: TLC keeps [i \in S |-> e]
\* unevaluated, and a bucket that took a thousand bases would be a
\* thousand pending sums deep.
Explicit(p) == p @@ <<>>

\* The value e, with v evaluated before it (TLC evaluates an operator's
\* argument when it is first used).
After(v, e) == IF v = v THEN e ELSE e

\* One pass of the manually unrolled kernel, on pair k: the pair is
\* prefetched at, and one pass later added to,
\* buckets[this_exponent_index].
ManualStep(st, k, sk, width, handle_trivial) ==
    LET idx == ManualIndex(st.index, exponents[k], sk, width, handle_trivial)
    IN  IF idx \notin DOMAIN st.buckets
        THEN [st EXCEPT !.panic = TRUE, !.used = @ \cup {idx}]
        ELSE [st EXCEPT !.index = idx,
                        !.used = @ \cup {idx},
                        !.buckets[idx] = Explicit(PAdd(@, bases[k]))]

\* The passes over the pairs k..last in turn, the first half of the range
\* before the second.
RECURSIVE ManualLoop(_, _, _, _, _, _)
ManualLoop(st, k, last, sk, width, handle_trivial) ==
    IF k > last \/ st.panic THEN st
    ELSE IF k = last THEN ManualStep(st, k, sk, width, handle_trivial)
    ELSE LET mid  == (k + last) \div 2
             left == ManualLoop(st, k, mid, sk, width, handle_trivial)
         IN  IF left.panic THEN left
             ELSE ManualLoop(left, mid + 1, last, sk, width, handle_trivial)

\* `for exp in buckets.into_iter().rev()` of the manually unrolled kernel,
\* over the buckets numbered hi down to lo of what the two drains left:
\* the upper half of the range before the lower half.
RECURSIVE ManualSweep(_, _, _, _)
ManualSweep(st, buckets, lo, hi) ==
    IF lo > hi THEN st
    ELSE IF lo = hi
    THEN LET running == Explicit(PAdd(st.running_sum, buckets[lo]))
         IN  [acc |-> Explicit(PAdd(st.acc, running)),
              running_sum |-> running]
    ELSE LET mid   == (lo + hi) \div 2
             upper == ManualSweep(st, buckets, mid + 1, hi)
         IN  After(upper, ManualSweep(upper, buckets, lo, mid))

\* A chunk worker of dense_multiexp_with_manual_unrolling_impl: the two
\* assertions on the chunk length; the passes over the blocks `this_chunk`
\* holds in turn (the first unrolled_steps - 1 blocks: the block copied last
\* into `next_chunk` is not read again); bucket 0 dropped, bucket 1 taken
\* as acc, and the sweep over the buckets from 2 up.
ManualChunk(lo, hi, sk, width, handle_trivial) ==
    LET len            == hi - lo + 1
        unrolled_steps == len \div ManualUnrollBy
        remainder      == len % ManualUnrollBy
    IN  IF unrolled_steps < 2 \/ remainder # 0 \/ Pow2(width) < 2
        THEN [panic |-> TRUE, used |-> {}, acc |-> PZero]
        ELSE LET st == ManualLoop(
                           [panic |-> FALSE, used |-> {}, index |-> 0,
                            buckets |-> ManualBuckets(width)],
                           lo, lo + (unrolled_steps - 1) * ManualUnrollBy - 1,
                           sk, width, handle_trivial)
                 rest == [d \in 1..(Pow2(width) - 2) |-> st.buckets[d + 1]]
             IN  [panic |-> st.panic, used |-> st.used,
                  acc |-> ManualSweep(
                              [acc |-> st.buckets[1], running_sum |-> PZero],
                              rest, 1, Pow2(width) - 2).acc]

\* The bucket indices (counted from 0) the loop of a chunk worker of
\* dense_multiexp_inner updates over the pairs lo..hi.
DenseUsed(lo, hi, sk, width, handle_trivial) ==
    {Target(exponents[k], sk, width, handle_trivial).d - 1 :
        k \in {i \in lo..hi :
                 Target(exponents[i], sk, width, handle_trivial).kind
                     = "bucket"}}

\* The spawn loop of pool.scope in entry point e: one worker per chunk,
\* core_idx counting up.  Only dense_multiexp_inner binds its workers.
SpawnWorkers(e, n, chunk) ==
    [j \in 1..NumChunks(n, chunk) |->
        [lo |-> ChunkLo(j, chunk), hi |-> ChunkHi(j, chunk, n),
         core_idx |-> j - 1, core |-> -1,
         pc |-> IF e = "dense_multiexp" THEN "bind" ELSE "kernel",
         at |-> "none", used |-> {}, acc |-> PZero]]

\* The width dense_multiexp derives from the chunk length.
DenseWidth(n, p) ==
    IF n < SmallInput THEN SmallWidth ELSE CeilLn(get_chunk_size(n, p))

\* Mutant of CombineRegion: the doublings of the higher windows are lost.
CombineRegionNoShift(next, this, width) == PAdd(next, this)

\* `next_region.double()` c times, then `next_region.add_assign(&this)`.
CombineRegion(next, this, width) == PAdd(PDoubleTimes(next, width), this)

\* A dense inner function of entry point e up to the end of its spawn
\* loop, for window sk: pool.scope(bases.len(), ...) gives the chunk size
\* and `bases.chunks(chunk).zip(exponents.chunks(chunk))` the chunks.
EnterWindow(e, sk) ==
    /\ skip' = sk
    /\ this_region' = PZero
    /\ region_lock' = 0
    /\ topo_lock' = 0
    /\ workers' = SpawnWorkers(e, Min(Len(bases), Len(exponents)),
                               get_chunk_size(Len(bases), cpus))

\* Mutant of DenseEntry: the length check is missing.
DenseEntryNoCheck(e) ==
    /\ call = "none"
    /\ results[e].tag = "None"
    /\ c' = [c EXCEPT ![e] = DenseWidth(Len(exponents), cpus)]
    /\ call' = e
    /\ EnterWindow(e, 0)
    /\ frames' = <<>>
    /\ next_region' = PZero
    /\ UNCHANGED results
    /\ UNCHANGED <<inputVars, sparseVars, consumeVars>>

\* Mutant of DenseEntry: only fewer bases than scalars are rejected.
DenseEntryRejectsFewer(e) ==
    /\ call = "none"
    /\ results[e].tag = "None"
    /\ IF Len(exponents) > Len(bases)
       THEN /\ results' = [results EXCEPT ![e] = Err("AssignmentMissing")]
            /\ UNCHANGED <<call, c, denseVars>>
       ELSE /\ c' = [c EXCEPT ![e] = DenseWidth(Len(exponents), cpus)]
            /\ call' = e
            /\ EnterWindow(e, 0)
            /\ frames' = <<>>
            /\ next_region' = PZero
            /\ UNCHANGED results
    /\ UNCHANGED <<inputVars, sparseVars, consumeVars>>

\* A dense entry point e: the length check, the width, the first window.
DenseEntry(e) ==
    /\ call = "none"
    /\ results[e].tag = "None"
    /\ IF Len(exponents) # Len(bases)
       THEN /\ results' = [results EXCEPT ![e] = Err("AssignmentMissing")]
            /\ UNCHANGED <<call, c, denseVars>>
       ELSE /\ c' = [c EXCEPT ![e] = DenseWidth(Len(exponents), cpus)]
            /\ call' = e
            /\ EnterWindow(e, 0)
            /\ frames' = <<>>
            /\ next_region' = PZero
            /\ UNCHANGED results
    /\ UNCHANGED <<inputVars, sparseVars, consumeVars>>

DenseMultiexp == DenseEntry("dense_multiexp")

DenseUnrolledMultiexpWithPrefetch ==
    DenseEntry("dense_unrolled_multiexp_with_prefetch")

DenseMultiexpWithManualUnrolling ==
    DenseEntry("dense_multiexp_with_manual_unrolling")

WorkerFrame == <<inputVars, call, c, results, sparseVars, consumeVars, skip,
                 frames, next_region>>

\* std::sync::Mutex: a mutex is poisoned once a thread has panicked while
\* holding its guard.
TopoPoisoned ==
    \E j \in DOMAIN workers :
        workers[j].pc = "panicked" /\ workers[j].at = "bound"

RegionPoisoned ==
    \E j \in DOMAIN workers :
        workers[j].pc = "panicked" /\ workers[j].at = "merge"

\* bind_thread: `child_topo.lock().unwrap()`, which panics on a poisoned
\* topology mutex.
BindLock(j) ==
    /\ call = "dense_multiexp"
    /\ workers[j].pc = "bind"
    /\ topo_lock = 0
    /\ IF TopoPoisoned
       THEN /\ workers' = [workers EXCEPT
                   ![j].pc = "panicked", ![j].at = "bind"]
            /\ UNCHANGED topo_lock
       ELSE /\ topo_lock' = j
            /\ workers' = [workers EXCEPT ![j].pc = "bound"]
    /\ UNCHANGED <<WorkerFrame, this_region, region_lock>>

\* Mutant of BindUnlock: the guard of the topology outlives bind_thread.
BindUnlockKeepsGuard(j) ==
    /\ call = "dense_multiexp"
    /\ workers[j].pc = "bound"
    /\ workers' = [workers EXCEPT
           ![j].pc = "kernel", ![j].core = workers[j].core_idx % num_cores]
    /\ UNCHANGED <<WorkerFrame, this_region, region_lock, topo_lock>>

\* bind_thread: set_cpubind_for_thread on core core_idx % num_cores; the
\* guard is dropped at the end of the function.
BindUnlock(j) ==
    /\ call = "dense_multiexp"
    /\ workers[j].pc = "bound"
    /\ topo_lock' = 0
    /\ workers' = [workers EXCEPT
           ![j].pc = "kernel", ![j].core = workers[j].core_idx % num_cores]
    /\ UNCHANGED <<WorkerFrame, this_region, region_lock>>

\* The bucket loop and the sweep of a chunk worker of entry point e over
\* the pairs lo..hi: the partial sum, the bucket indices it used, and
\* whether it panicked on the way.
ChunkKernel(e, lo, hi, sk, width, handle_trivial) ==
    IF e = "dense_multiexp"
    THEN LET used == DenseUsed(lo, hi, sk, width, handle_trivial)
         IN  [panic |-> \E idx \in used : ~InBuckets(NewBuckets(width), idx),
              used  |-> used,
              acc   |-> DenseChunk(lo, hi, sk, width, handle_trivial)]
    ELSE IF e = "dense_unrolled_multiexp_with_prefetch"
    THEN UnrolledChunk(lo, hi, sk, width, handle_trivial)
    ELSE ManualChunk(lo, hi, sk, width, handle_trivial)

\* The bucket loop and the sweep of chunk worker j.
WorkerKernel(j) ==
    /\ call \in DenseEntryPoints
    /\ workers[j].pc = "kernel"
    /\ LET r == ChunkKernel(call, workers[j].lo, workers[j].hi, skip,
                            c[call], skip = 0)
       IN  workers' = [workers EXCEPT
               ![j].pc = IF r.panic THEN "panicked" ELSE "lock",
               ![j].at = IF r.panic THEN "kernel" ELSE "none",
               ![j].used = r.used,
               ![j].acc = IF r.panic THEN PZero ELSE r.acc]
    /\ UNCHANGED <<WorkerFrame, this_region, region_lock, topo_lock>>

\* `this_region_rwlock.lock()`; on a poisoned mutex `panic!("poisoned!")`.
WorkerLock(j) ==
    /\ call \in DenseEntryPoints
    /\ workers[j].pc = "lock"
    /\ region_lock = 0
    /\ IF RegionPoisoned
       THEN /\ workers' = [workers EXCEPT
                   ![j].pc = "panicked", ![j].at = "lock"]
            /\ UNCHANGED region_lock
       ELSE /\ region_lock' = j
            /\ workers' = [workers EXCEPT ![j].pc = "merge"]
    /\ UNCHANGED <<WorkerFrame, this_region, topo_lock>>

\* `(*guard).add_assign(&acc)` and the drop of the guard.
WorkerMerge(j) ==
    /\ call \in DenseEntryPoints
    /\ workers[j].pc = "merge"
    /\ this_region' = MergeRegion(this_region, workers[j].acc)
    /\ region_lock' = 0
    /\ workers' = [workers EXCEPT ![j].pc = "done"]
    /\ UNCHANGED <<WorkerFrame, topo_lock>>

\* A chunk worker panics where its closure can: inside bind_thread with the
\* topology guard (an `unwrap()` of a failed binding), in its kernel, or
\* with the accumulator guard.  Unwinding drops the guard it holds.
WorkerPanic(j) ==
    /\ call \in DenseEntryPoints
    /\ workers[j].pc \in {"bound", "kernel", "merge"}
    /\ workers' = [workers EXCEPT
           ![j].pc = "panicked", ![j].at = workers[j].pc]
    /\ topo_lock' = IF workers[j].pc = "bound" THEN 0 ELSE topo_lock
    /\ region_lock' = IF workers[j].pc = "merge" THEN 0 ELSE region_lock
    /\ UNCHANGED <<WorkerFrame, this_region>>

\* Mutant of WorkersDone: the scope returns with the first closure that
\* ends.
WorkersDoneAny ==
    \E j \in DOMAIN workers : workers[j].pc \in {"done", "panicked"}

\* Every spawned closure has run to its end or has panicked.
WorkersDone ==
    \A j \in DOMAIN workers : workers[j].pc \in {"done", "panicked"}

\* Mutant of ScopePanicked: the pool swallows the panic of a worker.
ScopeSwallowsPanic(ws) == FALSE

\* pool.scope joins the spawned threads and fails in the caller when one of
\* them panicked.
ScopePanicked(ws) == \E j \in DOMAIN ws : ws[j].pc = "panicked"

\* pool.scope has returned: the accumulator is unwrapped (a panic when a
\* worker panicked or the mutex is poisoned), skip advances, and either
\* this is the highest window or the function calls itself.
\* A width of 0 never advances skip; the recursion then runs out of stack.
WindowDone ==
    /\ call \in DenseEntryPoints
    /\ workers # <<>> \/ Len(bases) = 0
    /\ WorkersDone
    /\ skip < NUM_BITS
    /\ LET sk == skip + c[call]
       IN  IF ScopePanicked(workers) \/ RegionPoisoned
           THEN /\ results' = [results EXCEPT ![call] = Err("Panic")]
                /\ call' = "none"
                /\ UNCHANGED denseVars
           ELSE IF sk >= NUM_BITS
           THEN /\ next_region' = this_region
                /\ skip' = sk
                /\ workers' = <<>>
                /\ UNCHANGED <<this_region, region_lock, topo_lock, frames,
                               results, call>>
           ELSE IF Len(frames) >= NUM_BITS
           THEN /\ results' = [results EXCEPT ![call] = Err("StackOverflow")]
                /\ call' = "none"
                /\ UNCHANGED denseVars
           ELSE /\ frames' = Append(frames, this_region)
                /\ EnterWindow(call, sk)
                /\ UNCHANGED <<next_region, results, call>>
    /\ UNCHANGED <<inputVars, c, sparseVars, consumeVars>>

\* A dense inner function returns to its caller, which doubles the value c
\* times and adds its own window; the outermost returns the result.
WindowReturn ==
    /\ call \in DenseEntryPoints
    /\ skip >= NUM_BITS
    /\ IF frames = <<>>
       THEN /\ results' = [results EXCEPT ![call] = Ok(next_region)]
            /\ call' = "none"
            /\ UNCHANGED denseVars
       ELSE /\ next_region' = CombineRegion(next_region, frames[Len(frames)],
                                            c[call])
            /\ frames' = SubSeq(frames, 1, Len(frames) - 1)
            /\ UNCHANGED <<skip, workers, this_region, region_lock,
                           topo_lock, results, call>>
    /\ UNCHANGED <<inputVars, c, sparseVars, consumeVars>>

----------------------------------------------------------------------------
(* dense_multiexp_consume *)

\* `let mut e = next_exp_to_prefetch; e.shr(skip);
\*  next_bucket_index = (next_exp_to_prefetch.as_ref()[0] & mask) as usize`:
\* the shifted copy e is computed and the index is taken from the original.
ConsumeBucketIndex(exp, sk, width) ==
    LET e == exp \div Pow2(sk)
    IN  exp % Pow2(width)

\* vec![zero; 1 << c], indexed from 0.
NewConsumeBuckets(width) == [d \in 0..(Pow2(width) - 1) |-> PZero]

\* The loop `for (base, &next_exp_to_prefetch) in base.iter().zip(...)`
\* over the pairs k..hi, with the index carried from the previous pass.
RECURSIVE ConsumeLoop(_, _, _, _, _, _)
ConsumeLoop(buckets, next_bucket_index, k, hi, sk, width) ==
    IF k > hi THEN buckets
    ELSE LET this_bucket_index == next_bucket_index
             next_exp == IF k < hi THEN exponents[k + 1] ELSE 0
             nxt == IF next_exp # 0
                    THEN ConsumeBucketIndex(next_exp, sk, width)
                    ELSE 0
             bk  == IF this_bucket_index > 0
                    THEN [buckets EXCEPT
                            ![this_bucket_index] = PAdd(@, bases[k])]
                    ELSE buckets
         IN  ConsumeLoop(bk, nxt, k + 1, hi, sk, width)

\* One pass of `loop { ... }` of a chunk worker w at w.skip: the buckets,
\* the sweep over buckets[1..], skip doublings, and the add into result.
ConsumePass(w, width) ==
    LET first   == exponents[w.lo] % Pow2(width)
        buckets == ConsumeLoop(NewConsumeBuckets(width), first, w.lo, w.hi,
                               w.skip, width)
        acc     == SumByParts(PZero, PZero, buckets, Pow2(width) - 1)
        shifted == PDoubleTimes(acc, w.skip)
        sk      == w.skip + width
    IN  [w EXCEPT !.acc = acc, !.result = PAdd(@, shifted), !.skip = sk,
                  !.pc = IF sk >= NUM_BITS THEN "done" ELSE "loop"]

SpawnConsumeWorkers(n, chunk) ==
    [j \in 1..NumChunks(n, chunk) |->
        [lo |-> ChunkLo(j, chunk), hi |-> ChunkHi(j, chunk, n), skip |-> 0,
         acc |-> PZero, result |-> PZero, pc |-> "loop"]]

\* `for value in rx.try_iter() { result.add_assign(&value); }`
RECURSIVE SumValues(_, _)
SumValues(values, k) ==
    IF k > Len(values) THEN PZero
    ELSE PAdd(values[k], SumValues(values, k + 1))

\* dense_multiexp_consume: the length check, the width, the spawn loop.
DenseMultiexpConsume ==
    /\ call = "none"
    /\ results["dense_multiexp_consume"].tag = "None"
    /\ IF Len(exponents) # Len(bases)
       THEN /\ results' = [results EXCEPT
                   !["dense_multiexp_consume"] = Err("AssignmentMissing")]
            /\ UNCHANGED <<call, c, consumeVars>>
       ELSE /\ c' = [c EXCEPT !["dense_multiexp_consume"] =
                         WindowWidth(Len(exponents))]
            /\ call' = "dense_multiexp_consume"
            /\ cworkers' = SpawnConsumeWorkers(Len(bases),
                               get_chunk_size(Len(bases), cpus))
            /\ rx' = <<>>
            /\ UNCHANGED results
    /\ UNCHANGED <<inputVars, sparseVars, denseVars>>

\* Chunk worker j runs one pass of its loop; after the last window it sends
\* its result on the channel.
ConsumeWindow(j) ==
    /\ call = "dense_multiexp_consume"
    /\ cworkers[j].pc = "loop"
    /\ LET w == ConsumePass(cworkers[j], c["dense_multiexp_consume"])
       IN  /\ cworkers' = [cworkers EXCEPT ![j] = w]
           /\ rx' = IF w.pc = "done" THEN Append(rx, w.result) ELSE rx
    /\ UNCHANGED <<inputVars, call, c, results, sparseVars, denseVars>>

\* pool.scope has returned: the caller drains the channel.
ConsumeCollect ==
    /\ call = "dense_multiexp_consume"
    /\ \A j \in DOMAIN cworkers : cworkers[j].pc = "done"
    /\ results' = [results EXCEPT
           !["dense_multiexp_consume"] = Ok(SumValues(rx, 1))]
    /\ call' = "none"
    /\ UNCHANGED <<inputVars, c, sparseVars, denseVars, consumeVars>>

----------------------------------------------------------------------------
(* Specification: every entry point on the same equal-length input *)

Init ==
    /\ exponents \in ShortInputs \cup LongInputs
    /\ bases = Generators(Len(exponents))
    /\ density_map = FullDensity
    /\ \E m \in Machines : cpus = m[1] /\ num_cores = m[2]
    /\ call = "none"
    /\ c = [e \in EntryPoints |-> 0]
    /\ results = [e \in EntryPoints |-> NoResult]
    /\ futures = <<>>
    /\ poll = "None"
    /\ skip = 0
    /\ workers = <<>>
    /\ this_region = PZero
    /\ region_lock = 0
    /\ topo_lock = 0
    /\ frames = <<>>
    /\ next_region = PZero
    /\ cworkers = <<>>
    /\ rx = <<>>

\* The caller of the tests test_dense_multiexp_vs_new_multiexp and
\* test_bench_dense_consuming_multiexp: dense_multiexp, then multiexp, then
\* dense_multiexp_consume, each on the same bases and scalars.
TestDense == DenseMultiexp

TestSparse == results["dense_multiexp"].tag # "None" /\ Multiexp

TestConsume == results["multiexp"].tag # "None" /\ DenseMultiexpConsume

Next ==
    \/ TestSparse
    \/ \E w \in DOMAIN futures : TaskStep(w)
    \/ \E w \in DOMAIN futures : TaskFinish(w)
    \/ Poll
    \/ TestDense
    \/ \E j \in DOMAIN workers : BindLock(j)
    \/ \E j \in DOMAIN workers : BindUnlock(j)
    \/ \E j \in DOMAIN workers : WorkerKernel(j)
    \/ \E j \in DOMAIN workers : WorkerLock(j)
    \/ \E j \in DOMAIN workers : WorkerMerge(j)
    \/ WindowDone
    \/ WindowReturn
    \/ TestConsume
    \/ \E j \in DOMAIN cworkers : ConsumeWindow(j)
    \/ ConsumeCollect

Spec == Init /\ [][Next]_vars

----------------------------------------------------------------------------
(* Specification: multiexp alone, with a density map and a base source     *)
(* that may run out                                                        *)

DensityMaps(n) == {FullDensity} \cup {DensityTracker(b) : b \in [1..n -> BOOLEAN]}

\* The window tasks never read the size of the pool; the machine is the
\* largest one.
InitSparse ==
    /\ exponents \in ShortInputs
    /\ density_map \in DensityMaps(Len(exponents))
    /\ \E nb \in 0..MaxLen : bases = Generators(nb)
    /\ cpus = MaxCpus /\ num_cores = MaxCpus
    /\ call = "none"
    /\ c = [e \in EntryPoints |-> 0]
    /\ results = [e \in EntryPoints |-> NoResult]
    /\ futures = <<>>
    /\ poll = "None"
    /\ skip = 0
    /\ workers = <<>>
    /\ this_region = PZero
    /\ region_lock = 0
    /\ topo_lock = 0
    /\ frames = <<>>
    /\ next_region = PZero
    /\ cworkers = <<>>
    /\ rx = <<>>

NextSparse ==
    \/ Multiexp
    \/ \E w \in DOMAIN futures : TaskStep(w)
    \/ \E w \in DOMAIN futures : TaskFinish(w)
    \/ Poll

SpecSparse == InitSparse /\ [][NextSparse]_vars

----------------------------------------------------------------------------
(* Specification: the window scheduler of multiexp with the width forced   *)

\* Widths from one bit per window to a single window wider than a scalar.
Widths == 1..(NUM_BITS + 1)

\* The dispatch loop and the ChunksJoiner of multiexp, with c given.
MultiexpForced == \E width \in Widths : StartWindows(width)

InitWindow ==
    /\ exponents \in ShortInputs
    /\ density_map = FullDensity
    /\ bases = Generators(Len(exponents))
    /\ cpus = MaxCpus /\ num_cores = MaxCpus
    /\ call = "none"
    /\ c = [e \in EntryPoints |-> 0]
    /\ results = [e \in EntryPoints |-> NoResult]
    /\ futures = <<>>
    /\ poll = "None"
    /\ skip = 0
    /\ workers = <<>>
    /\ this_region = PZero
    /\ region_lock = 0
    /\ topo_lock = 0
    /\ frames = <<>>
    /\ next_region = PZero
    /\ cworkers = <<>>
    /\ rx = <<>>

NextWindow ==
    \/ MultiexpForced
    \/ \E w \in DOMAIN futures : TaskStep(w)
    \/ \E w \in DOMAIN futures : TaskFinish(w)
    \/ Poll

SpecWindow == InitWindow /\ [][NextWindow]_vars

----------------------------------------------------------------------------
(* Specification: every entry point, on bases and scalars of any two       *)
(* lengths                                                                 *)

\* The state before the caller's first call, with a result slot for each
\* entry point of eps.
BeforeCalls(eps) ==
    /\ call = "none"
    /\ c = [e \in eps |-> 0]
    /\ results = [e \in eps |-> NoResult]
    /\ futures = <<>>
    /\ poll = "None"
    /\ skip = 0
    /\ workers = <<>>
    /\ this_region = PZero
    /\ region_lock = 0
    /\ topo_lock = 0
    /\ frames = <<>>
    /\ next_region = PZero
    /\ cworkers = <<>>
    /\ rx = <<>>

\* The order in which the caller goes through the entry points, each call
\* made once the one before has returned.
CallOrder ==
    <<"dense_multiexp", "dense_unrolled_multiexp_with_prefetch",
      "dense_multiexp_with_manual_unrolling", "dense_multiexp_consume",
      "future_based_multiexp", "multiexp">>

Turn(e) ==
    \A k \in DOMAIN CallOrder :
        CallOrder[k] = e =>
            \A i \in 1..(k - 1) : results[CallOrder[i]].tag # "None"

\* Short scalar vectors with any number of bases up to MaxLen on every
\* machine, and the long ones with as many bases as scalars on one CPU.
InitLengths ==
    /\ \/ /\ exponents \in ShortInputs
          /\ \E nb \in 0..MaxLen : bases = Generators(nb)
          /\ \E m \in Machines : cpus = m[1] /\ num_cores = m[2]
       \/ /\ exponents \in LongInputs
          /\ bases = Generators(Len(exponents))
          /\ cpus = 1 /\ num_cores = 1
    /\ density_map = FullDensity
    /\ BeforeCalls(AllEntryPoints)

NextLengths ==
    \/ Turn("dense_multiexp") /\ DenseMultiexp
    \/ Turn("dense_unrolled_multiexp_with_prefetch")
          /\ DenseUnrolledMultiexpWithPrefetch
    \/ Turn("dense_multiexp_with_manual_unrolling")
          /\ DenseMultiexpWithManualUnrolling
    \/ Turn("dense_multiexp_consume") /\ DenseMultiexpConsume
    \/ Turn("future_based_multiexp") /\ FutureBasedMultiexp
    \/ Turn("multiexp") /\ Multiexp
    \/ \E j \in DOMAIN workers : BindLock(j)
    \/ \E j \in DOMAIN workers : BindUnlock(j)
    \/ \E j \in DOMAIN workers : WorkerKernel(j)
    \/ \E j \in DOMAIN workers : WorkerLock(j)
    \/ \E j \in DOMAIN workers : WorkerMerge(j)
    \/ WindowDone
    \/ WindowReturn
    \/ \E j \in DOMAIN cworkers : ConsumeWindow(j)
    \/ ConsumeCollect
    \/ \E w \in DOMAIN futures : FutureTaskStep(w)
    \/ \E w \in DOMAIN futures : FutureTaskFinish(w)
    \/ \E w \in DOMAIN futures : TaskStep(w)
    \/ \E w \in DOMAIN futures : TaskFinish(w)
    \/ Poll

SpecLengths == InitLengths /\ [][NextLengths]_vars

----------------------------------------------------------------------------
(* Specification: multiexp with a density map of any length                *)

\* A full density map, or a tracked one of any length up to MaxLen, which
\* need not be the number of scalars.
InitQuery ==
    /\ exponents \in ShortInputs
    /\ \E n \in 0..MaxLen : density_map \in DensityMaps(n)
    /\ bases = Generators(Len(exponents))
    /\ cpus = MaxCpus /\ num_cores = MaxCpus
    /\ BeforeCalls(EntryPoints)

SpecQuery == InitQuery /\ [][NextSparse]_vars

----------------------------------------------------------------------------
(* Specification: the dense entry points with chunk workers that may panic *)

InitPanic ==
    /\ exponents \in ShortInputs
    /\ bases = Generators(Len(exponents))
    /\ density_map = FullDensity
    /\ \E m \in Machines : cpus = m[1] /\ num_cores = m[2]
    /\ BeforeCalls(DenseEntryPoints)

NextPanic ==
    \/ Turn("dense_multiexp") /\ DenseMultiexp
    \/ Turn("dense_unrolled_multiexp_with_prefetch")
          /\ DenseUnrolledMultiexpWithPrefetch
    \/ Turn("dense_multiexp_with_manual_unrolling")
          /\ DenseMultiexpWithManualUnrolling
    \/ \E j \in DOMAIN workers : BindLock(j)
    \/ \E j \in DOMAIN workers : BindUnlock(j)
    \/ \E j \in DOMAIN workers : WorkerKernel(j)
    \/ \E j \in DOMAIN workers : WorkerLock(j)
    \/ \E j \in DOMAIN workers : WorkerMerge(j)
    \/ \E j \in DOMAIN workers : WorkerPanic(j)
    \/ WindowDone
    \/ WindowReturn

SpecPanic == InitPanic /\ [][NextPanic]_vars

----------------------------------------------------------------------------
(* Specification: the two window schedulers, future_based_multiexp and     *)
(* multiexp, on pools of up to MaxPoolCpus CPUs                            *)

InitFuture ==
    /\ exponents \in ShortInputs \cup LongInputs
    /\ bases = Generators(Len(exponents))
    /\ density_map = FullDensity
    /\ cpus \in 1..MaxPoolCpus /\ num_cores = cpus
    /\ BeforeCalls(SparseEntryPoints)

NextFuture ==
    \/ FutureBasedMultiexp
    \/ \E w \in DOMAIN futures : FutureTaskStep(w)
    \/ \E w \in DOMAIN futures : FutureTaskFinish(w)
    \/ results["future_based_multiexp"].tag # "None" /\ Multiexp
    \/ \E w \in DOMAIN futures : TaskStep(w)
    \/ \E w \in DOMAIN futures : TaskFinish(w)
    \/ Poll

SpecFuture == InitFuture /\ [][NextFuture]_vars

----------------------------------------------------------------------------
(* Specification: dense_multiexp down its recursion, also on a pool with   *)
(* as many CPUs as the long input has pairs                                *)

\* The pools: up to MaxCpus CPUs, and one CPU per pair of a long input.
RecursionPools == (1..MaxCpus) \cup {SmallInput}

InitRecursion ==
    /\ exponents \in ShortInputs \cup LongInputs
    /\ bases = Generators(Len(exponents))
    /\ density_map = FullDensity
    /\ cpus \in RecursionPools /\ num_cores = cpus
    /\ BeforeCalls({"dense_multiexp"})

\* The chunk workers before j have run to their end: the schedule that
\* runs the closures of a window one after another, in spawn order.
InSpawnOrder(j) ==
    \A i \in 1..(j - 1) : workers[i].pc \in {"done", "panicked"}

NextRecursion ==
    \/ DenseMultiexp
    \/ \E j \in DOMAIN workers : InSpawnOrder(j) /\ BindLock(j)
    \/ \E j \in DOMAIN workers : InSpawnOrder(j) /\ BindUnlock(j)
    \/ \E j \in DOMAIN workers : InSpawnOrder(j) /\ WorkerKernel(j)
    \/ \E j \in DOMAIN workers : InSpawnOrder(j) /\ WorkerLock(j)
    \/ \E j \in DOMAIN workers : InSpawnOrder(j) /\ WorkerMerge(j)
    \/ WindowDone
    \/ WindowReturn

SpecRecursion == InitRecursion /\ [][NextRecursion]_vars

\* The short inputs on every pool and the long ones on the pool with one
\* CPU per pair.
InitReturn ==
    /\ InitRecursion
    /\ Len(exponents) >= SmallInput => cpus = SmallInput

\* The pool runs a spawned closure to its end and the caller goes on when
\* the scope has returned: some step is taken whenever one can be.
SpecReturnFair ==
    InitReturn /\ [][NextRecursion]_vars /\ WF_vars(NextRecursion)

----------------------------------------------------------------------------
(* Specification: dense_multiexp alone, its chunk workers interleaved      *)

InitDense ==
    /\ exponents \in ShortInputs \cup LongInputs
    /\ bases = Generators(Len(exponents))
    /\ density_map = FullDensity
    /\ \E m \in Machines : cpus = m[1] /\ num_cores = m[2]
    /\ BeforeCalls({"dense_multiexp"})

NextDense ==
    \/ DenseMultiexp
    \/ \E j \in DOMAIN workers : BindLock(j)
    \/ \E j \in DOMAIN workers : BindUnlock(j)
    \/ \E j \in DOMAIN workers : WorkerKernel(j)
    \/ \E j \in DOMAIN workers : WorkerLock(j)
    \/ \E j \in DOMAIN workers : WorkerMerge(j)
    \/ WindowDone
    \/ WindowReturn

SpecDense == InitDense /\ [][NextDense]_vars

\* The steps of chunk worker j, a thread of the pool.
WorkerThread(j) ==
    /\ j \in DOMAIN workers
    /\ \/ BindLock(j)
       \/ BindUnlock(j)
       \/ WorkerKernel(j)
       \/ WorkerLock(j)
       \/ WorkerMerge(j)

\* The steps of the thread that called dense_multiexp.
CallerThread == DenseMultiexp \/ WindowDone \/ WindowReturn

\* Fair scheduling: no thread that can take a step is left waiting for
\* ever.
SpecDenseFair ==
    /\ InitDense /\ Len(exponents) < SmallInput
    /\ [][NextDense]_vars
    /\ WF_vars(CallerThread)
    /\ \A j \in 1..MaxCpus : WF_vars(WorkerThread(j))

----------------------------------------------------------------------------
(* Specification: dense_multiexp, then dense_unrolled_multiexp_with_       *)
(* prefetch on the same input, on pools of up to MaxPoolCpus CPUs          *)

InitUnrolled ==
    /\ exponents \in ShortInputs \cup LongInputs
    /\ bases = Generators(Len(exponents))
    /\ density_map = FullDensity
    /\ cpus \in 1..MaxPoolCpus /\ num_cores = cpus
    /\ BeforeCalls({"dense_multiexp",
                    "dense_unrolled_multiexp_with_prefetch"})

NextUnrolled ==
    \/ DenseMultiexp
    \/ results["dense_multiexp"].tag # "None"
          /\ DenseUnrolledMultiexpWithPrefetch
    \/ \E j \in DOMAIN workers : BindLock(j)
    \/ \E j \in DOMAIN workers : BindUnlock(j)
    \/ \E j \in DOMAIN workers : WorkerKernel(j)
    \/ \E j \in DOMAIN workers : WorkerLock(j)
    \/ \E j \in DOMAIN workers : WorkerMerge(j)
    \/ WindowDone
    \/ WindowReturn

SpecUnrolled == InitUnrolled /\ [][NextUnrolled]_vars

----------------------------------------------------------------------------
(* Specification: dense_multiexp_with_manual_unrolling on chunks of two    *)
(* blocks                                                                  *)

\* Two blocks of ManualUnrollBy scalars, the same scalar throughout a
\* block.
ManualInputs ==
    {[i \in 1..(2 * ManualUnrollBy) |->
         IF i <= ManualUnrollBy THEN s ELSE t] :
      s \in ScalarSamples, t \in ScalarSamples}

\* The bases of a block are one generator, a generator for each block.
ManualBases(n) ==
    [i \in 1..n |->
        Generator(((i - 1) \div ManualUnrollBy) + 1, n \div ManualUnrollBy)]

InitManual ==
    /\ exponents \in ManualInputs
    /\ bases = ManualBases(Len(exponents))
    /\ density_map = FullDensity
    /\ cpus \in 1..MaxCpus /\ num_cores = cpus
    /\ BeforeCalls({"dense_multiexp_with_manual_unrolling"})

NextManual ==
    \/ DenseMultiexpWithManualUnrolling
    \/ \E j \in DOMAIN workers : WorkerKernel(j)
    \/ \E j \in DOMAIN workers : WorkerLock(j)
    \/ \E j \in DOMAIN workers : WorkerMerge(j)
    \/ WindowDone
    \/ WindowReturn

SpecManual == InitManual /\ [][NextManual]_vars

----------------------------------------------------------------------------
(* Specification: join_chunks on every vector of window results            *)

\* Vec<Result<G, SynthesisError>>: what a window task can have returned, a
\* group element or one of two errors.
WindowOutcomes ==
    {Ok(PZero), Ok(bases[1]), Err("SourceExhausted"), Err("AssignmentMissing")}

\* The completed future of window number w with outcome r.
CompletedTask(w, width, r) ==
    [NewTask((w - 1) * width, width, w = 1) EXCEPT
        !.state = "done", !.result = r]

\* The joiner after join_all has collected the window results, before
\* ChunksJoiner::poll hands them to join_chunks.
InitJoin ==
    /\ exponents = <<>>
    /\ bases = Generators(1)
    /\ density_map = FullDensity
    /\ cpus = MaxPoolCpus /\ num_cores = MaxPoolCpus
    /\ call = "multiexp"
    /\ \E width \in 1..SmallWidth : c = [e \in {"multiexp"} |-> width]
    /\ results = [e \in {"multiexp"} |-> NoResult]
    /\ \E m \in 1..MaxPoolCpus : \E rs \in [1..m -> WindowOutcomes] :
          futures = [w \in 1..m |-> CompletedTask(w, c["multiexp"], rs[w])]
    /\ poll = "None"
    /\ skip = 0
    /\ workers = <<>>
    /\ this_region = PZero
    /\ region_lock = 0
    /\ topo_lock = 0
    /\ frames = <<>>
    /\ next_region = PZero
    /\ cworkers = <<>>
    /\ rx = <<>>

NextJoin == Poll

SpecJoin == InitJoin /\ [][NextJoin]_vars

----------------------------------------------------------------------------
(* Reference values *)

\* naive_multiexp of the tests: `acc.add_assign(&base.mul(*exp))` per pair.
RECURSIVE NaiveSum(_, _, _)
NaiveSum(bs, exps, k) ==
    IF k > Len(exps) THEN PZero
    ELSE PAdd(PMul(bs[k], exps[k]), NaiveSum(bs, exps, k + 1))

naive_multiexp(bs, exps) == NaiveSum(bs, exps, 1)

Returned(e) == results[e].tag # "None"

EqualLengthFull == density_map.full /\ Len(bases) = Len(exponents)

\* dense_multiexp on a pool of p CPUs with every window's chunk partials
\* added in chunk order: the sum of window sk and of all higher windows.
RECURSIVE ChunksInOrder(_, _, _, _)
ChunksInOrder(j, chunk, sk, width) ==
    IF j > NumChunks(Len(bases), chunk) THEN PZero
    ELSE PAdd(DenseChunk(ChunkLo(j, chunk), ChunkHi(j, chunk, Len(bases)),
                         sk, width, sk = 0),
              ChunksInOrder(j + 1, chunk, sk, width))

RECURSIVE WindowsInOrder(_, _, _)
WindowsInOrder(chunk, sk, width) ==
    LET this == ChunksInOrder(1, chunk, sk, width)
    IN  IF sk + width >= NUM_BITS THEN this
        ELSE PAdd(PDoubleTimes(WindowsInOrder(chunk, sk + width, width), width),
                  this)

DenseInOrder(p) ==
    WindowsInOrder(get_chunk_size(Len(bases), p), 0, DenseWidth(Len(bases), p))

----------------------------------------------------------------------------
(* Claims C1-C5: the entry points on equal-length inputs (Spec) *)

\* C1: for equal-length bases and scalars and a full density map, the value
\* the ChunksJoiner of multiexp resolves to is the naive sum of
\* scalars[i] * bases[i].
C1_MultiexpIsNaiveSum ==
    (EqualLengthFull /\ Returned("multiexp"))
        => results["multiexp"] = Ok(naive_multiexp(bases, exponents))

\* multiexp has returned on an input with several scalars above one, of
\* which one has a digit in the highest window.
C1_Witness ==
    /\ EqualLengthFull /\ results["multiexp"].tag = "Ok"
    /\ Len(futures) > 1
    /\ Len(exponents) >= 2
    /\ \A k \in DOMAIN exponents : exponents[k] > 1
    /\ \E k \in DOMAIN exponents : exponents[k] >= Pow2(NUM_BITS - 1)

\* C2: on equal-length inputs dense_multiexp (chunk workers, one window
\* after another) returns the group element multiexp with a full density
\* map (one task per window) returns.
C2_DenseEqualsSparse ==
    (EqualLengthFull /\ Returned("dense_multiexp") /\ Returned("multiexp"))
        => results["dense_multiexp"] = results["multiexp"]

\* Both have returned a non-zero point, dense_multiexp from two chunks and
\* with a window width other than that of multiexp.
C2_Witness ==
    /\ results["dense_multiexp"].tag = "Ok" /\ results["multiexp"].tag = "Ok"
    /\ results["multiexp"].value # PZero
    /\ c["dense_multiexp"] # c["multiexp"]
    /\ NumChunks(Len(bases), get_chunk_size(Len(bases), cpus)) > 1

\* C3: dense_multiexp_consume returns the group element that multiexp and
\* dense_multiexp return on the same input (in window j each scalar
\* contributes its digit (k >> (j*c)) mod 2^c).
C3_ConsumeEqualsOthers ==
    (EqualLengthFull /\ Returned("dense_multiexp_consume"))
        => /\ results["dense_multiexp_consume"] = results["multiexp"]
           /\ results["dense_multiexp_consume"] = results["dense_multiexp"]

\* C4: for fixed inputs and a fixed chunk size dense_multiexp returns the
\* same group element whatever the order in which the chunk workers take
\* the accumulator mutex: the one obtained by merging in chunk order.
C4_InterleavingIndependent ==
    results["dense_multiexp"].tag = "Ok"
        => results["dense_multiexp"].value = DenseInOrder(cpus)

\* The second chunk worker of a window is merging its non-zero partial sum
\* while the first has yet to take the accumulator mutex.
C4_Witness ==
    /\ call = "dense_multiexp"
    /\ Len(workers) >= 2
    /\ workers[2].pc = "merge" /\ workers[2].acc # PZero
    /\ workers[1].pc = "lock" /\ workers[1].acc # PZero

\* C5: the point dense_multiexp returns is the same for every CPU count of
\* the pool: it is the point a pool of one CPU yields (one chunk, and for
\* n >= 32 a window width other than that of smaller chunks).
C5_CpuCountIndependent ==
    results["dense_multiexp"].tag = "Ok"
        => results["dense_multiexp"].value = DenseInOrder(1)

\* dense_multiexp has returned a non-zero point on a pool whose chunk size
\* gives a window width other than the one a single CPU gives.
C5_Witness ==
    /\ results["dense_multiexp"].tag = "Ok"
    /\ results["dense_multiexp"].value # PZero
    /\ cpus > 1
    /\ Len(exponents) >= SmallInput
    /\ c["dense_multiexp"] # DenseWidth(Len(exponents), 1)

----------------------------------------------------------------------------
(* Claims C7, C8: zero and one scalars (Spec) *)

AllZero == \A k \in DOMAIN exponents : exponents[k] = 0

AllPointsZero(ps) == \A k \in DOMAIN ps : ps[k] = PZero

\* C7: if every scalar is 0, multiexp, dense_multiexp and
\* dense_multiexp_consume each return the group identity, and no base is
\* added to a bucket or to an accumulator in any window.
C7_AllZeroIsIdentity ==
    (EqualLengthFull /\ AllZero) =>
        /\ \A e \in EntryPoints : Returned(e) => results[e] = Ok(PZero)
        /\ \A w \in DOMAIN futures :
              futures[w].acc = PZero /\ AllPointsZero(futures[w].buckets)
        /\ \A j \in DOMAIN workers : workers[j].acc = PZero
        /\ this_region = PZero /\ next_region = PZero
        /\ AllPointsZero(frames)
        /\ \A j \in DOMAIN cworkers :
              cworkers[j].acc = PZero /\ cworkers[j].result = PZero
        /\ AllPointsZero(rx)

\* All three entry points have returned on two zero scalars.
C7_Witness ==
    /\ AllZero /\ Len(exponents) >= 2
    /\ \A e \in EntryPoints : results[e].tag = "Ok"
    /\ Len(futures) > 1 /\ Len(rx) > 1

Ones == {k \in DOMAIN exponents : exponents[k] = 1}

\* C8: in multiexp and dense_multiexp a base whose scalar is exactly 1 is
\* added once over the whole call, to the accumulator of the window with
\* skip = 0, and to no bucket and no accumulator of a higher window; with
\* one scalar 1 and the others 0 the result is the corresponding base.
C8_OneAddedOnce ==
    EqualLengthFull => \A i \in Ones :
        /\ \A w \in DOMAIN futures :
              /\ \A d \in DOMAIN futures[w].buckets :
                    futures[w].buckets[d][i] = 0
              /\ futures[w].acc[i] =
                    IF futures[w].skip = 0 /\ futures[w].i >= i THEN 1 ELSE 0
        /\ \A j \in DOMAIN workers :
              workers[j].acc[i] =
                 IF /\ skip = 0
                    /\ workers[j].pc \in {"lock", "merge", "done"}
                    /\ workers[j].lo <= i /\ i <= workers[j].hi
                 THEN 1 ELSE 0
        /\ \A k \in DOMAIN frames : frames[k][i] = IF k = 1 THEN 1 ELSE 0
        /\ this_region[i] <= (IF frames = <<>> THEN 1 ELSE 0)
        /\ results["multiexp"].tag = "Ok" =>
              /\ results["multiexp"].value[i] = 1
              /\ (\A k \in DOMAIN exponents \ {i} : exponents[k] = 0)
                    => results["multiexp"].value = bases[i]
        /\ results["dense_multiexp"].tag = "Ok" =>
              /\ results["dense_multiexp"].value[i] = 1
              /\ (\A k \in DOMAIN exponents \ {i} : exponents[k] = 0)
                    => results["dense_multiexp"].value = bases[i]

\* Both calls have returned the second base on scalars <<0, 1>>, each
\* after more than one window.
C8_Witness ==
    /\ Len(exponents) = 2 /\ exponents[1] = 0 /\ exponents[2] = 1
    /\ results["multiexp"] = Ok(bases[2])
    /\ results["dense_multiexp"] = Ok(bases[2])
    /\ Len(futures) > 1
    /\ c["dense_multiexp"] < NUM_BITS

----------------------------------------------------------------------------
(* Claim C6: window independence (SpecWindow) *)

\* A window task run to completion on its own.
RECURSIVE RunTask(_, _)
RunTask(t, width) ==
    IF t.state = "done" THEN t
    ELSE IF t.i < ZipLen(exponents, density_map)
    THEN RunTask(KernelStep(t, width), width)
    ELSE KernelFinish(t)

\* The window kernel for skip = 0, width, 2 * width, ... joined by
\* join_chunks.
MultiexpAtWidth(width) ==
    LET fs == Dispatch(0, width)
    IN  join_chunks([w \in DOMAIN fs |-> RunTask(fs[w], width).result], width)

\* C6: for a fixed input, the window kernel run for every skip = 0, c,
\* 2c, ... < NUM_BITS and joined by join_chunks yields the same group
\* element for every width c >= 1, also when c does not divide NUM_BITS
\* and when c >= NUM_BITS.
C6_WindowIndependent ==
    (EqualLengthFull /\ poll = "Ready") =>
        \A width \in Widths : results["multiexp"] = MultiexpAtWidth(width)

\* The joiner has resolved for a width above NUM_BITS (a single window) on
\* an input holding the largest scalar.
C6_Witness ==
    /\ poll = "Ready" /\ results["multiexp"].tag = "Ok"
    /\ c["multiexp"] > NUM_BITS /\ Len(futures) = 1
    /\ Len(exponents) >= 2
    /\ \E k \in DOMAIN exponents : exponents[k] = Pow2(NUM_BITS) - 1

----------------------------------------------------------------------------
(* Claims C9, C10: density map and failing window tasks (SpecSparse) *)

\* Window task w runs the pass of its loop on a false density entry.
PassesFalseEntry(w) ==
    /\ futures'[w].i = futures[w].i + 1
    /\ ~DensityAt(density_map, futures'[w].i)

\* C9 as stated: in the sparse kernel a false density-map entry advances
\* the base stream by one position.
C9_FalseEntryAdvancesBases ==
    [][\A w \in DOMAIN futures :
          PassesFalseEntry(w) => futures'[w].pos = futures[w].pos + 1]_vars

\* C9 amended: a false density-map entry consumes the scalar at its
\* position and leaves the base stream where it is: the cursor, the
\* accumulator and the buckets are unchanged and the task goes on.
C9_FalseEntryDropsScalar ==
    [][\A w \in DOMAIN futures :
          PassesFalseEntry(w) =>
              /\ futures'[w].pos = futures[w].pos
              /\ futures'[w].acc = futures[w].acc
              /\ futures'[w].buckets = futures[w].buckets
              /\ futures'[w].state = "running"]_vars

\* multiexp has returned on a map <<FALSE, TRUE>> with one base: the
\* scalar of the false entry is dropped and the second scalar is paired
\* with the first base.
C9_Witness ==
    /\ ~density_map.full /\ density_map.bits = <<FALSE, TRUE>>
    /\ Len(bases) = 1
    /\ exponents[1] > 1 /\ exponents[2] > 1 /\ exponents[1] # exponents[2]
    /\ results["multiexp"] = Ok(PMul(bases[1], exponents[2]))

\* C10: the ChunksJoiner resolves to Ok only when every window task
\* returned Ok; if a window task failed it resolves to that error and to no
\* group element.
C10_ErrorNoPartial ==
    poll = "Ready" =>
        /\ results["multiexp"].tag = "Ok"
              <=> \A w \in DOMAIN futures : futures[w].result.tag = "Ok"
        /\ results["multiexp"].tag # "Ok" =>
              /\ results["multiexp"].value = PZero
              /\ \E w \in DOMAIN futures :
                    futures[w].result = results["multiexp"]

\* The joiner has resolved to the error of window tasks whose source ran
\* out at the second true-density scalar, after the first base went into a
\* bucket.
C10_Witness ==
    /\ poll = "Ready" /\ results["multiexp"].tag = "SourceExhausted"
    /\ Len(futures) > 1
    /\ \E w \in DOMAIN futures :
          /\ futures[w].pos = 1
          /\ \E d \in DOMAIN futures[w].buckets :
                futures[w].buckets[d] # PZero

----------------------------------------------------------------------------
(* Claims C11, C12: length validation (SpecLengths) *)

\* The entry points that take the bases as a slice and check its length.
SliceEntryPoints == DenseEntryPoints \cup {"dense_multiexp_consume"}

\* C11: dense_multiexp, dense_unrolled_multiexp_with_prefetch,
\* dense_multiexp_with_manual_unrolling and dense_multiexp_consume, called
\* with fewer bases than scalars, return an error in the step of the call:
\* the caller is never inside one of them, no chunk worker is spawned, no
\* mutex is taken and no accumulator is written.
C11_FewerBasesSyncError ==
    Len(bases) < Len(exponents) =>
        /\ \A e \in SliceEntryPoints :
              /\ call # e
              /\ Returned(e) => results[e] = Err("AssignmentMissing")
        /\ workers = <<>> /\ cworkers = <<>> /\ rx = <<>>
        /\ topo_lock = 0 /\ region_lock = 0
        /\ this_region = PZero /\ frames = <<>> /\ next_region = PZero

\* The four have returned their error on one base for two scalars.
C11_Witness ==
    /\ Len(bases) = 1 /\ Len(exponents) = 2
    /\ \A e \in SliceEntryPoints : results[e].tag = "AssignmentMissing"

\* C12 as stated: an entry point signals a length error only when there
\* are fewer bases than scalars.
C12_ErrorOnlyIfFewerBases ==
    \A e \in AllEntryPoints :
        results[e].tag = "AssignmentMissing"
            => Len(bases) < Len(exponents)

\* C12 amended: the slice entry points signal a length error exactly when
\* the two lengths differ, also with more bases than scalars; multiexp and
\* future_based_multiexp take at least as many bases as scalars and return
\* the sum over the scalars with the first bases.
C12_SliceNeedsEqualLengths ==
    /\ \A e \in SliceEntryPoints :
          Returned(e) =>
              (results[e] = Err("AssignmentMissing")
                  <=> Len(bases) # Len(exponents))
    /\ \A e \in SparseEntryPoints :
          (Len(bases) >= Len(exponents) /\ Returned(e))
              => results[e] = Ok(naive_multiexp(bases, exponents))

\* With two bases for one scalar above one, the slice entry points have
\* returned the length error and the two others the scalar times the first
\* base.
C12_Witness ==
    /\ Len(bases) = 2 /\ Len(exponents) = 1 /\ exponents[1] > 1
    /\ \A e \in SliceEntryPoints : results[e].tag = "AssignmentMissing"
    /\ \A e \in SparseEntryPoints :
          results[e] = Ok(PMul(bases[1], exponents[1]))

----------------------------------------------------------------------------
(* Claim C13: the query size of the density map (SpecQuery) *)

\* The density map exposes a query size other than the number of scalars.
QueryMismatch ==
    get_query_size(density_map) \notin {-1, Len(exponents)}

\* C13 as stated: on a query size that differs from the number of scalars
\* multiexp hands its caller an error result.
C13_MismatchIsErrorResult ==
    (QueryMismatch /\ Returned("multiexp"))
        => results["multiexp"].tag \notin {"Ok", "Panic"}

\* C13 amended: on a query size that differs from the number of scalars
\* multiexp fails its assertion, a panic in the caller and no error result,
\* in the step of the call: no window task is dispatched and no joiner is
\* polled.
C13_MismatchPanicsBeforeDispatch ==
    QueryMismatch =>
        /\ Returned("multiexp") => results["multiexp"] = Err("Panic")
        /\ call # "multiexp"
        /\ futures = <<>>
        /\ poll = "None"

\* multiexp has panicked on two scalars above one with a map of one true
\* entry.
C13_Witness ==
    /\ Len(exponents) = 2 /\ \A k \in 1..2 : exponents[k] > 1
    /\ ~density_map.full /\ density_map.bits = <<TRUE>>
    /\ results["multiexp"].tag = "Panic"

----------------------------------------------------------------------------
(* Claim C14: readiness of the ChunksJoiner (SpecSparse) *)

\* C14: the ChunksJoiner of multiexp is Ready only after every window task
\* has completed, also when a window has failed before; a poll while a
\* task is unfinished returns Pending and leaves the result unset, and a
\* poll once all have finished returns Ready with the combined result.
C14_ReadyAfterEveryWindow ==
    /\ [](Returned("multiexp") =>
             /\ poll = "Ready"
             /\ \A w \in DOMAIN futures : futures[w].state = "done")
    /\ [][(call = "multiexp" /\ poll' # poll) =>
             IF \A w \in DOMAIN futures : futures[w].state = "done"
             THEN /\ poll' = "Ready"
                  /\ results'["multiexp"] =
                        join_chunks([w \in DOMAIN futures |->
                                        futures[w].result], c["multiexp"])
             ELSE /\ poll' = "Pending"
                  /\ results' = results]_vars

\* A poll has returned Pending while one window task has failed and
\* another is still running.
C14_Witness ==
    /\ call = "multiexp" /\ poll = "Pending"
    /\ \E w \in DOMAIN futures : futures[w].result.tag = "SourceExhausted"
    /\ \E w \in DOMAIN futures : futures[w].state = "running"

----------------------------------------------------------------------------
(* Claim C15: a panicking chunk worker (SpecPanic) *)

----------------------------------------------------------------------------
(* Claims C16, C20: the dispatch loops (SpecFuture) *)

\* C16: multiexp and future_based_multiexp enqueue one window task for each
\* skip in {0, c, 2c, ...} below NUM_BITS, that is ceil(NUM_BITS / c) tasks
\* in increasing skip order, and the task with skip = 0 is the only one
\* with handle_trivial.
C16_OneTaskPerWindow ==
    call \in SparseEntryPoints =>
        /\ Len(futures) = (NUM_BITS + c[call] - 1) \div c[call]
        /\ \A w \in DOMAIN futures :
              /\ futures[w].skip = (w - 1) * c[call]
              /\ futures[w].skip < NUM_BITS
              /\ futures[w].handle_trivial <=> (w = 1)

\* future_based_multiexp has dispatched windows of a width that does not
\* divide NUM_BITS, and more than one of them.
C16_Witness ==
    /\ call = "future_based_multiexp"
    /\ NUM_BITS % c[call] # 0
    /\ Len(futures) > 1
    /\ \A w \in DOMAIN futures : futures[w].state = "done"

\* C20: the width future_based_multiexp chooses gives at least pool.cpus
\* window tasks.
C20_WindowsAtLeastCpus ==
    call = "future_based_multiexp" => Len(futures) >= cpus

----------------------------------------------------------------------------
(* Claims C17, C18: the combination of the windows and the sweep           *)
(* (SpecWindow)                                                            *)

\* The sum over j of 2^(width * (j-1)) * ws[j], for ws[j..].
RECURSIVE WeightedWindows(_, _, _)
WeightedWindows(ws, j, width) ==
    IF j > Len(ws) THEN PZero
    ELSE PAdd(PMul(ws[j].value, Pow2(width * (j - 1))),
              WeightedWindows(ws, j + 1, width))

\* C17: given window sums W_0..W_{m-1} that are all Ok, in increasing
\* window order, join_chunks returns the sum over j of 2^(c*j) * W_j,
\* whatever order the window tasks completed in.
C17_JoinIsWeightedSum ==
    (poll = "Ready"
        /\ \A w \in DOMAIN futures : futures[w].result.tag = "Ok")
    => results["multiexp"] =
          Ok(WeightedWindows([w \in DOMAIN futures |-> futures[w].result],
                             1, c["multiexp"]))

\* The joiner has resolved over more than two windows whose sums are all
\* non-zero and not all the same.
C17_Witness ==
    /\ poll = "Ready" /\ results["multiexp"].tag = "Ok"
    /\ Len(futures) > 2
    /\ \A w \in DOMAIN futures : futures[w].result.value # PZero
    /\ \E w \in DOMAIN futures :
          futures[w].result.value # futures[1].result.value

\* The sum over d = 1..n of d * buckets[d].
RECURSIVE BucketsByDigit(_, _)
BucketsByDigit(buckets, n) ==
    IF n = 0 THEN PZero
    ELSE PAdd(PMul(buckets[n], n), BucketsByDigit(buckets, n - 1))

\* The sum of the bases k..n whose scalar is above one and has digit d in
\* the window at sk.
RECURSIVE BasesOfDigit(_, _, _, _, _)
BasesOfDigit(d, k, n, sk, width) ==
    IF k > n THEN PZero
    ELSE PAdd(IF exponents[k] > 1
                 /\ (exponents[k] \div Pow2(sk)) % Pow2(width) = d
              THEN bases[k] ELSE PZero,
              BasesOfDigit(d, k + 1, n, sk, width))

\* The sum over the pairs k..n of digit(k) * bases[k] for the window at sk.
RECURSIVE WindowContribution(_, _, _, _)
WindowContribution(k, n, sk, width) ==
    IF k > n THEN PZero
    ELSE PAdd(PMul(bases[k], (exponents[k] \div Pow2(sk)) % Pow2(width)),
              WindowContribution(k + 1, n, sk, width))

\* The sum of the bases k..n whose scalar has digit d in the window at sk,
\* the scalar one included.
RECURSIVE AllBasesOfDigit(_, _, _, _, _)
AllBasesOfDigit(d, k, n, sk, width) ==
    IF k > n THEN PZero
    ELSE PAdd(IF (exponents[k] \div Pow2(sk)) % Pow2(width) = d
              THEN bases[k] ELSE PZero,
              AllBasesOfDigit(d, k + 1, n, sk, width))

\* C18 as stated: the sweep adds to acc the sum over d of d * B[d], B[d]
\* being the sum of the bases whose window digit is d.
C18_BucketsHoldEveryDigit ==
    [][\A w \in DOMAIN futures :
          (EqualLengthFull /\ w \in DOMAIN futures'
              /\ futures[w].state = "running" /\ futures'[w].state = "done")
          => futures'[w].acc =
                PAdd(futures[w].acc,
                     WindowContribution(1, Len(exponents), futures[w].skip,
                                        c["multiexp"]))]_vars

\* C18, amended: after the bucket loop every bucket B[d] holds the sum of
\* the bases whose scalar is not one and whose window digit is d (a base
\* whose scalar is one is added to acc in the first window and is in no
\* bucket); the sweep adds to acc the sum over d of d * B[d]; and the
\* value the window task returns is the contribution of its window,
\* before the weighting, of all scalars.
C18_SweepIsSumByDigit ==
    /\ [](EqualLengthFull =>
            \A w \in DOMAIN futures :
                /\ futures[w].state = "running" =>
                      \A d \in DOMAIN futures[w].buckets :
                          futures[w].buckets[d] =
                              BasesOfDigit(d, 1, futures[w].i,
                                           futures[w].skip, c["multiexp"])
                /\ futures[w].state = "done" =>
                      futures[w].result =
                          Ok(WindowContribution(1, Len(exponents),
                                                futures[w].skip,
                                                c["multiexp"])))
    /\ [][\A w \in DOMAIN futures :
             (w \in DOMAIN futures' /\ futures[w].state = "running"
                /\ futures'[w].state = "done")
             => futures'[w].acc =
                   PAdd(futures[w].acc,
                        BucketsByDigit(futures[w].buckets,
                                       Len(futures[w].buckets)))]_vars

\* The first window's task has finished its sweep over more than two
\* buckets, the highest of which holds a base, and a scalar is one.
C18_Witness ==
    \E w \in DOMAIN futures :
        /\ futures[w].state = "done" /\ futures[w].result.tag = "Ok"
        /\ futures[w].skip = 0 /\ \E k \in DOMAIN exponents : exponents[k] = 1
        /\ Len(futures[w].buckets) > 2
        /\ futures[w].buckets[Len(futures[w].buckets)] # PZero

----------------------------------------------------------------------------
(* Claim C19: bucket indices (SpecLengths)                                 *)

\* The bucket index d - 1 of scalar exp in the window at sk, -1 for digit 0.
IndexOfDigit(exp, sk, width) == ((exp \div Pow2(sk)) % Pow2(width)) - 1

\* The indices of a vector of 2^width - 1 buckets.
BucketIndices(width) == 0..(Pow2(width) - 2)

\* The kernels of the claim that run as window tasks, and as chunk workers.
TaskKernels == {"multiexp", "future_based_multiexp"}
WorkerKernels == {"dense_multiexp", "dense_unrolled_multiexp_with_prefetch"}

\* C19: in every kernel that allocates 2^c - 1 buckets (sparse kernel,
\* future-based dense kernel, dense_multiexp_inner, unrolled-by-8 kernel),
\* every bucket index used for an update or for a prefetch is d - 1 with
\* 1 <= d <= 2^c - 1, d the window digit of the pair, hence inside the
\* bucket array (no kernel panics on an index); a pair with digit 0
\* touches no bucket.
C19_BucketIndexInRange ==
    /\ call \in TaskKernels =>
          \A w \in DOMAIN futures :
              LET t == futures[w]
              IN  /\ t.result # Err("Panic")
                  /\ Len(t.buckets) = Pow2(c[call]) - 1
                  /\ t.updated # -1 =>
                        /\ t.updated \in BucketIndices(c[call])
                        /\ t.updated =
                              IndexOfDigit(exponents[t.i], t.skip, c[call])
                  /\ t.prefetched # -1 =>
                        /\ t.prefetched \in BucketIndices(c[call])
                        /\ t.i < Len(exponents)
                        /\ t.prefetched =
                              IndexOfDigit(exponents[t.i + 1], t.skip,
                                           c[call])
    /\ call \in WorkerKernels =>
          \A j \in DOMAIN workers :
              /\ workers[j].at # "kernel"
              /\ workers[j].used \subseteq BucketIndices(c[call])
              /\ workers[j].used \subseteq
                    {IndexOfDigit(exponents[k], skip, c[call]) :
                        k \in workers[j].lo..workers[j].hi} \ {-1}

\* A window task of the sparse kernel has prefetched and updated the
\* highest bucket in one pass, in a behaviour where the three other kernels
\* have returned their sums.
C19_Witness ==
    /\ call = "multiexp"
    /\ \E w \in DOMAIN futures :
          /\ futures[w].updated = Pow2(c[call]) - 2
          /\ futures[w].prefetched = Pow2(c[call]) - 2
    /\ results["dense_multiexp"].tag = "Ok"
    /\ results["dense_unrolled_multiexp_with_prefetch"].tag = "Ok"
    /\ results["future_based_multiexp"].tag = "Ok"

----------------------------------------------------------------------------
(* Claim C21: the recursion of dense_multiexp_inner (SpecRecursion)        *)

\* C21: dense_multiexp terminates for every input length and every chunk
\* size >= 1 of the pool: the width it derives is at least 1, so skip
\* strictly increases on every recursive call of dense_multiexp_inner and
\* the recursion ends after finitely many windows.
C21_DenseTerminates ==
    /\ [](/\ call = "dense_multiexp" => c["dense_multiexp"] >= 1
          /\ results["dense_multiexp"].tag # "StackOverflow")
    /\ [][Len(frames') > Len(frames) => skip' > skip]_vars

----------------------------------------------------------------------------
(* Claims C22..C26: the chunk workers of a window (SpecDense)              *)

\* The sum of the partial sums of the chunk workers 1..j that have merged.
RECURSIVE MergedPartials(_)
MergedPartials(j) ==
    IF j = 0 THEN PZero
    ELSE PAdd(MergedPartials(j - 1),
              IF workers[j].pc = "done" THEN workers[j].acc ELSE PZero)

\* C22: within one window of dense_multiexp_inner every chunk worker adds
\* its partial sum to the shared window accumulator exactly once, and only
\* while it holds the accumulator mutex; when pool.scope returns, the
\* accumulator is the sum of the partial sums of all chunks of the window.
C22_MergedOnceUnderLock ==
    /\ [](workers # <<>> =>
            /\ this_region = MergedPartials(Len(workers))
            /\ \A j \in DOMAIN workers :
                  /\ workers[j].pc = "merge" <=> region_lock = j
                  /\ workers[j].pc \in {"lock", "merge", "done"} =>
                        workers[j].acc =
                            DenseChunk(workers[j].lo, workers[j].hi, skip,
                                       c["dense_multiexp"], skip = 0))
    /\ [][(workers # <<>> /\ workers' # <<>> /\ skip' = skip
              /\ this_region' # this_region)
          => \E j \in DOMAIN workers :
                /\ workers[j].pc = "merge" /\ region_lock = j
                /\ workers'[j].pc = "done"
                /\ this_region' = PAdd(this_region, workers[j].acc)]_vars

\* pool.scope has returned in the first window with two chunk workers, each
\* of which merged a non-zero partial sum.
C22_Witness ==
    /\ call = "dense_multiexp" /\ skip = 0
    /\ Len(workers) = 2
    /\ \A j \in DOMAIN workers :
          workers[j].pc = "done" /\ workers[j].acc # PZero
    /\ this_region = PAdd(workers[1].acc, workers[2].acc)

\* C23: in dense_multiexp the windows are processed one after another:
\* the window accumulator is read out (Arc::try_unwrap succeeds: no worker
\* holds a handle) only after every chunk worker of the window has merged
\* and finished, and no chunk worker of the next window starts before
\* that; all running chunk workers belong to the same window.
C23_WindowsOneAfterAnother ==
    [][(call = "dense_multiexp"
          /\ (skip' # skip \/ frames' # frames
                \/ \E j \in DOMAIN workers' :
                      /\ workers'[j].pc = "bind"
                      /\ j \in DOMAIN workers => workers[j].pc # "bind"))
       => /\ \A j \in DOMAIN workers : workers[j].pc = "done"
          /\ region_lock = 0
          /\ skip' >= skip]_vars

\* The second window runs with two chunk workers, one of them finished and
\* one still in its kernel, over the accumulator read out of the first.
C23_Witness ==
    /\ call = "dense_multiexp"
    /\ skip > 0 /\ Len(frames) = 1 /\ frames[1] # PZero
    /\ Len(workers) = 2
    /\ workers[1].pc = "kernel" /\ workers[2].pc = "done"

\* C25: within one window of dense_multiexp_inner each chunk worker is
\* pinned to a distinct physical core: no two chunk workers of the window
\* are bound to the same core index, for every number of chunks and every
\* number of cores the topology reports.
C25_DistinctCores ==
    call = "dense_multiexp" =>
        \A j, k \in DOMAIN workers :
            (j # k /\ workers[j].core # -1 /\ workers[k].core # -1)
                => workers[j].core # workers[k].core

\* C26: a chunk worker of dense_multiexp_inner holds the topology mutex
\* only inside bind_thread: it has released it before it touches a bucket,
\* and it never holds the topology mutex and the window accumulator mutex
\* at the same time.
C26_TopologyLockOnlyInBind ==
    call = "dense_multiexp" =>
        \A j \in DOMAIN workers :
            /\ topo_lock = j <=> workers[j].pc = "bound"
            /\ workers[j].pc \in {"kernel", "lock", "merge", "done"}
                  => topo_lock # j
            /\ ~(topo_lock = j /\ region_lock = j)

\* One chunk worker is inside bind_thread with the topology mutex while
\* another holds the accumulator mutex.
C26_Witness ==
    /\ call = "dense_multiexp"
    /\ \E j, k \in DOMAIN workers :
          /\ j # k
          /\ topo_lock = j /\ workers[j].pc = "bound"
          /\ region_lock = k /\ workers[k].pc = "merge"

----------------------------------------------------------------------------
(* Claim C27: progress of dense_multiexp under fair scheduling             *)

\* Under fair scheduling and with no panic every chunk worker goes through
\* bind_thread, the kernel and the merge and ends, and after the last
\* window no mutex is locked (SpecDenseFair).
DenseWorkersFinish ==
    /\ \A j \in 1..MaxCpus :
          (j \in DOMAIN workers /\ workers[j].pc = "bind")
             ~> (j \in DOMAIN workers /\ workers[j].pc = "done")
    /\ [](WorkersDone => region_lock = 0 /\ topo_lock = 0)
    /\ (call = "dense_multiexp") ~> (results["dense_multiexp"].tag = "Ok")

\* C27: under fair scheduling of the pool's threads and with no panic the
\* chunk workers of every window merge and terminate, no mutex stays
\* locked after the window completes, and so dense_multiexp eventually
\* returns (SpecReturnFair).
C27_DenseEventuallyReturns ==
    /\ [](WorkersDone => region_lock = 0 /\ topo_lock = 0)
    /\ (call = "dense_multiexp") ~> (results["dense_multiexp"].tag = "Ok")

----------------------------------------------------------------------------
(* Claim C28: the kernel unrolled by 8 (SpecUnrolled)                      *)

\* C28: dense_unrolled_multiexp_with_prefetch returns the same group
\* element as the straight-line dense_multiexp for every equal-length
\* input, also with chunks shorter than UNROLL_BY and chunks that are not a
\* multiple of it: every pair of a chunk is processed exactly once.
C28_UnrolledEqualsDense ==
    results["dense_unrolled_multiexp_with_prefetch"].tag # "None"
    => /\ results["dense_unrolled_multiexp_with_prefetch"]
             = results["dense_multiexp"]
       /\ results["dense_unrolled_multiexp_with_prefetch"]
             = Ok(naive_multiexp(bases, exponents))

\* Both calls have returned a non-zero sum on an input whose chunks hold a
\* block of UNROLL_BY pairs and a remainder.
C28_Witness ==
    /\ results["dense_unrolled_multiexp_with_prefetch"].tag = "Ok"
    /\ results["dense_unrolled_multiexp_with_prefetch"].value # PZero
    /\ get_chunk_size(Len(exponents), cpus) > UNROLL_BY
    /\ get_chunk_size(Len(exponents), cpus) % UNROLL_BY # 0

----------------------------------------------------------------------------
(* Claim C29: the manually unrolled kernel (SpecManual)                    *)

\* The sum of exponents[i] * bases[i] over the pairs lo..hi, the value
\* dense_multiexp returns on them (C1, C2).
RECURSIVE SumOfPairs(_, _)
SumOfPairs(lo, hi) ==
    IF lo > hi THEN PZero
    ELSE IF lo = hi THEN PMul(bases[lo], exponents[lo])
    ELSE PAdd(SumOfPairs(lo, (lo + hi) \div 2),
              SumOfPairs(((lo + hi) \div 2) + 1, hi))

\* C29: on every input whose chunks it accepts (chunk length a multiple of
\* its UNROLL_BY and at least twice it) dense_multiexp_with_manual_unrolling
\* returns the group element the straight-line dense_multiexp returns:
\* every block of the chunk is processed and each bucket d is weighted by
\* d.
C29_ManualEqualsDense ==
    results["dense_multiexp_with_manual_unrolling"].tag = "Ok"
    => results["dense_multiexp_with_manual_unrolling"].value
          = SumOfPairs(1, Len(exponents))

----------------------------------------------------------------------------
(* Claim C24: the error of a join (SpecJoin)                               *)

FailedWindows == {w \in DOMAIN futures : futures[w].result.tag # "Ok"}

----------------------------------------------------------------------------
(* Claim C30: the base source follows the density map (SpecSparse)         *)

\* Number of true density entries among the first n pairs.
TrueCount(n) == Cardinality({k \in 1..n : DensityAt(density_map, k)})

\* The pair of the j-th true density entry.
TrueIndex(j) ==
    CHOOSE k \in 1..ZipLen(exponents, density_map) :
        DensityAt(density_map, k) /\ TrueCount(k) = j

\* The pairs task t has completed: a task that failed did so inside its
\* last pair.
PairsSeen(t) == IF t.result.tag \in {"None", "Ok"} THEN t.i ELSE t.i - 1

\* The j-th base of the source lies where tg says, and nowhere else, in
\* the accumulator and the buckets of task t.
BaseLiesAt(t, j, tg) ==
    /\ t.acc[j] = IF tg.kind = "acc" THEN 1 ELSE 0
    /\ \A d \in DOMAIN t.buckets :
          t.buckets[d][j] = IF tg.kind = "bucket" /\ tg.d = d THEN 1 ELSE 0

\* C30: in every window task of the sparse kernel, after any prefix of the
\* scalar stream, the cursor of the base source equals the number of true
\* density entries seen so far, and the j-th base taken is the one paired
\* with the scalar of the j-th true entry: it lies in the accumulator or in
\* the bucket of that scalar's digit, or was passed over.
C30_SourceFollowsDensity ==
    \A w \in DOMAIN futures :
        LET t == futures[w]
        IN  /\ t.pos = TrueCount(PairsSeen(t))
            /\ t.state = "running" =>
                  \A j \in 1..t.pos :
                      BaseLiesAt(t, j,
                          Target(exponents[TrueIndex(j)], t.skip,
                                 c["multiexp"], t.handle_trivial))

\* A task has passed a false entry and then a true one: the first base of
\* the source lies in the bucket of the second scalar; another task has
\* passed over a base for a true entry.
C30_Witness ==
    /\ \E w \in DOMAIN futures :
          /\ futures[w].state = "running"
          /\ futures[w].i = 2 /\ futures[w].pos = 1
          /\ ~DensityAt(density_map, 1)
          /\ \E d \in DOMAIN futures[w].buckets :
                futures[w].buckets[d] # PZero
    /\ \E w \in DOMAIN futures :
          /\ futures[w].state = "running"
          /\ futures[w].pos = 1
          /\ futures[w].acc = PZero
          /\ \A d \in DOMAIN futures[w].buckets : futures[w].buckets[d] = PZero

====
